---- MODULE Spec2Model ----
(***************************************************************************)
(* A model of the layout engine of md5crypt/layout: the LayoutElement      *)
(* class (latest revision, src/unnamed/part_001 lines 931-2218) and the    *)
(* LayoutFactory that builds trees of elements.                            *)
(*                                                                         *)
(* Every element is a record of the fields of the class.  A method is an   *)
(* operator that takes the program state s = [el, events, err] and returns *)
(* the state after the call; a getter that caches returns the pair         *)
(* [s, v] of the state after the call and the value read.  s.err is the    *)
(* exception in flight ("none" when there is none): once it is set the     *)
(* remaining statements of every enclosing method are skipped, as a throw  *)
(* does.  s.events is the list of notifications fired by the call, and     *)
(* s.seen the flags of the element at the moment of each notification;     *)
(* s.arranged lists the containers whose arrangement the call has run.     *)
(*                                                                         *)
(* Lengths are integers.  Positions (cachedTop, cachedLeft) are kept in    *)
(* half units, because centre alignment halves a difference: Pos(x) is the *)
(* stored form of the length x and Half(x) the stored form of x / 2.       *)
(* A callback for top or left is one that returns a constant; callbacks    *)
(* for width and height are the ones setWidth and setHeight store for a    *)
(* percentage; anchor and origin are left at the constructor's defaults.   *)
(*                                                                         *)
(* Statements that follow one another are written with Bind: the value of  *)
(* the first is computed once and handed to the rest as r in               *)
(* Bind(first, LAMBDA r : rest).                                           *)
(***************************************************************************)
EXTENDS Integers, Sequences, FiniteSets, TLC

\* ------------------------------------------------------------------------
\* Bounds of the model
\* ------------------------------------------------------------------------
NumNodes == 3       \* elements that exist (constructed by the factory)
MaxDepth == 8       \* call depth after which measurement is a stack overflow
MaxOps == 3         \* measurement operations performed after the construction
MaxTreeOps == 2     \* tree operations and lookups performed after the construction

Nodes == 1..NumNodes

\* ------------------------------------------------------------------------
\* Nullable values: null is the empty set, a value v is {v}
\* ------------------------------------------------------------------------
Null == {}
Some(v) == {v}
Get(o) == CHOOSE v \in o : TRUE

\* number | null read as a number (JS: null + x = x, value || 0)
OrZero(o) == IF o = Null THEN 0 ELSE Get(o)

Pos(x) == 2 * x
Half(x) == x

Min(a, b) == IF a < b THEN a ELSE b
Max(a, b) == IF a > b THEN a ELSE b

\* ------------------------------------------------------------------------
\* Names and paths
\* ------------------------------------------------------------------------
\* config.name; "" stands for an element without a name (undefined is falsy
\* exactly as "" is)
Names == {"a", "b", "@a"}
\* names with name[0] == "@"
AtNames == {"@a"}
IsAt(name) == name \in AtNames

\* A path is a string, modelled as a sequence of tokens: a token is either
\* the separator "." or a piece of text without a separator.
Dot == "."

\* String.split("."): the list of segments, each a sequence of tokens
RECURSIVE SplitFrom(_, _, _)
SplitFrom(path, i, cur) ==
    IF i > Len(path) THEN <<cur>>
    ELSE IF path[i] = Dot THEN <<cur>> \o SplitFrom(path, i + 1, <<>>)
    ELSE SplitFrom(path, i + 1, Append(cur, path[i]))

Split(path) == SplitFrom(path, 1, <<>>)

\* Number(segment): NaN is Null.  Number("") is 0, a run of digits is its
\* decimal value, any other text is NaN.
Digits == {"0", "1", "2"}
DigitValue(t) == IF t = "0" THEN 0 ELSE IF t = "1" THEN 1 ELSE 2

RECURSIVE DecimalValue(_, _)
DecimalValue(seg, k) ==
    IF k = 0 THEN 0 ELSE 10 * DecimalValue(seg, k - 1) + DigitValue(seg[k])

NumberOf(seg) ==
    IF \A k \in 1..Len(seg) : seg[k] \in Digits
    THEN Some(DecimalValue(seg, Len(seg)))
    ELSE Null

\* ------------------------------------------------------------------------
\* State
\* ------------------------------------------------------------------------
VARIABLES
    el,        \* el[n]: the fields of element n
    events,    \* notifications fired by the last operation, in order
    err,       \* exception thrown by the last operation, "none" if it returned
    ret,       \* value returned by the last operation
    lastOp,    \* the last operation and its arguments
    ops        \* number of operations performed so far

vars == <<el, events, err, ret, lastOp, ops>>

Box(v) == [top |-> v, left |-> v, bottom |-> v, right |-> v]

\* LayoutElement.resolvePositioningBox, for a number and for an object with
\* some of top/left/bottom/right/vertical/horizontal (absent fields are Null)
resolvePositioningBox(value) ==
    IF value.kind = "number" THEN Box(value.v)
    ELSE [top    |-> IF value.top = Null THEN OrZero(value.vertical) ELSE Get(value.top),
          left   |-> IF value.left = Null THEN OrZero(value.horizontal) ELSE Get(value.left),
          bottom |-> IF value.bottom = Null THEN OrZero(value.vertical) ELSE Get(value.bottom),
          right  |-> IF value.right = Null THEN OrZero(value.horizontal) ELSE Get(value.right)]

NumberBox(v) == [kind |-> "number", v |-> v]

\* a size input: null or a number
Unset == [kind |-> "unset", value |-> 0]
Num(v) == [kind |-> "number", value |-> v]
\* a callback for top or left that returns v
Returning(v) == [kind |-> "function", value |-> v]

\* the string "n%" given to setWidth or setHeight, and the callbacks they
\* store for it: element => element._parent!.computedWidth * (n / 100) and
\* the same of computedHeight.  The percentages used are whole multiples of
\* 100, so that the product is a whole number.
Percent(n) == [kind |-> "string", value |-> n]
ShareOfParentWidth(n) == [kind |-> "shareOfParentWidth", value |-> n]
ShareOfParentHeight(n) == [kind |-> "shareOfParentHeight", value |-> n]
IsCallback(input) == input.kind \in {"shareOfParentWidth", "shareOfParentHeight"}

\* The state after new LayoutElement(factory, config) for a config that sets
\* only name and noChildrenMap; the other fields are set by the setters below,
\* which the constructor calls for every field of the config that is defined.
Construct(name, noChildrenMap) ==
    [name |-> name,
     top |-> Num(0), left |-> Num(0), scale |-> 1, parentScale |-> 1,
     xFill |-> 0, yFill |-> 0,
     width |-> Unset, height |-> Unset,
     padding |-> Box(0), margin |-> Box(0),
     flexMode |-> "none",
     flexHorizontalAlign |-> "left", flexVerticalAlign |-> "top",
     flexGrow |-> 0, ignoreLayout |-> FALSE, volatile |-> FALSE,
     parent |-> Null,
     cachedTop |-> Null, cachedLeft |-> Null,
     cachedWidth |-> Null, cachedHeight |-> Null,
     enabled |-> TRUE, dirty |-> TRUE, layoutReady |-> FALSE,
     childrenMap |-> IF name # "" /\ ~noChildrenMap THEN Some(<<>>) ELSE Null,
     children |-> <<>>,
     contentWidth |-> 0, contentHeight |-> 0]

\* the program state threaded through the methods
State(e) == [el |-> e, events |-> <<>>, seen |-> <<>>, arranged |-> <<>>, err |-> "none"]

Ok(s) == s.err = "none"
Throw(s, e) == IF Ok(s) THEN [s EXCEPT !.err = e] ELSE s
\* a callback is called with the element: s.seen keeps, for every call, the
\* flags the callback finds on the element it is given
Fire(s, kind, n) ==
    [s EXCEPT !.events = Append(@, <<kind, n>>),
              !.seen = Append(@, [dirty |-> s.el[n].dirty,
                                  layoutReady |-> s.el[n].layoutReady])]

\* a getter's result: the state after the call and the value
Res(s, v) == [s |-> s, v |-> v]

\* sequencing: v is computed, then F is applied to its value
Bind(v, F(_)) == CHOOSE r \in {F(x) : x \in {v}} : TRUE

IndexOf(seq, x) ==
    IF \E i \in 1..Len(seq) : seq[i] = x
    THEN (CHOOSE i \in 1..Len(seq) : seq[i] = x /\ \A j \in 1..(i - 1) : seq[j] # x) - 1
    ELSE -1

\* Array.splice(index, 1) and Array.splice(index, 0, x), 0-based; a start
\* beyond the end is clamped to the length
RemoveAt(seq, index) ==
    [i \in 1..(Len(seq) - 1) |-> IF i <= index THEN seq[i] ELSE seq[i + 1]]

InsertAt(seq, index, x) ==
    LET at == Min(index, Len(seq))
    IN  [i \in 1..(Len(seq) + 1) |->
            IF i <= at THEN seq[i] ELSE IF i = at + 1 THEN x ELSE seq[i - 1]]

\* isParentOf: this is in the parent chain of child
RECURSIVE isParentOf(_, _, _)
isParentOf(e, this, child) ==
    /\ e[child].parent # Null
    /\ \/ Get(e[child].parent) = this
       \/ isParentOf(e, this, Get(e[child].parent))

\* ------------------------------------------------------------------------
\* Invalidation
\* ------------------------------------------------------------------------
parentLayout(s, this) ==
    IF s.el[this].parent # Null THEN s.el[Get(s.el[this].parent)].flexMode ELSE "none"

RECURSIVE setDirty(_, _, _)
RECURSIVE setDirtyChildren(_, _, _, _)

\* the loop of setDirty over this.children, from the i-th child on
setDirtyChildren(s, this, i, force) ==
    IF i > Len(s.el[this].children) THEN s
    ELSE setDirtyChildren(setDirty(s, s.el[this].children[i], force), this, i + 1, force)

\* the assignments at the head of setDirty without `this._layoutReady = false`
InvalidatedButReady(s, this) ==
    [s EXCEPT !.el[this].cachedTop = Null,
              !.el[this].cachedLeft = Null,
              !.el[this].cachedWidth = Null,
              !.el[this].cachedHeight = Null,
              !.el[this].dirty = TRUE]

\* the assignments at the head of setDirty
Invalidated(s, this) ==
    [s EXCEPT !.el[this].cachedTop = Null,
              !.el[this].cachedLeft = Null,
              !.el[this].cachedWidth = Null,
              !.el[this].cachedHeight = Null,
              !.el[this].dirty = TRUE,
              !.el[this].layoutReady = FALSE]

\* setDirty without the test of this._dirty, for the element alone
setDirtyUntested(s, this, force) == Invalidated(s, this)

\* setDirty that does not go up to the parent
setDirtyDownOnly(s, this, force) ==
    IF ~s.el[this].dirty \/ force
    THEN IF s.el[this].flexMode # "none" \/ s.el[this].volatile
         THEN setDirtyChildren(Invalidated(s, this), this, 1, force)
         ELSE Invalidated(s, this)
    ELSE s

setDirty(s, this, force) ==
    IF ~s.el[this].dirty \/ force
    THEN Bind(IF s.el[this].flexMode # "none" \/ s.el[this].volatile
              THEN setDirtyChildren(Invalidated(s, this), this, 1, force)
              ELSE Invalidated(s, this),
              LAMBDA s2 :
                  IF parentLayout(s2, this) # "none"
                  THEN setDirty(s2, Get(s2.el[this].parent), FALSE)
                  ELSE s2)
    ELSE s

\* the value setDirty returns
setDirtyResult(s, this, force) == ~s.el[this].dirty \/ force

\* ------------------------------------------------------------------------
\* The name index
\* ------------------------------------------------------------------------
MapSet(m, key, value) == (key :> value) @@ m
MapDelete(m, key) == [k \in (DOMAIN m) \ {key} |-> m[k]]
MapHas(m, key) == key \in DOMAIN m

\* nameAdd without the walk to the parent: an element without an index
\* registers nothing
nameAddOwnIndexOnly(s, this, element) ==
    IF s.el[this].childrenMap # Null
    THEN [s EXCEPT !.el[this].childrenMap =
                        Some(MapSet(Get(@), s.el[element].name, element))]
    ELSE s

RECURSIVE nameAdd(_, _, _)
nameAdd(s, this, element) ==
    IF s.el[this].childrenMap # Null
    THEN [s EXCEPT !.el[this].childrenMap =
                        Some(MapSet(Get(@), s.el[element].name, element))]
    ELSE IF s.el[this].parent # Null
    THEN nameAdd(s, Get(s.el[this].parent), element)
    ELSE s

RECURSIVE nameRemove(_, _, _)
nameRemove(s, this, element) ==
    IF s.el[this].childrenMap # Null
    THEN [s EXCEPT !.el[this].childrenMap =
                        Some(MapDelete(Get(@), s.el[element].name))]
    ELSE IF s.el[this].parent # Null
    THEN nameRemove(s, Get(s.el[this].parent), element)
    ELSE s

RECURSIVE nameRemoveRecursion(_, _, _)
RECURSIVE nameRemoveRecursionChildren(_, _, _, _)

\* element.children.forEach(element => this.nameRemoveRecursion(element))
nameRemoveRecursionChildren(s, this, element, i) ==
    IF i > Len(s.el[element].children) THEN s
    ELSE nameRemoveRecursionChildren(
             nameRemoveRecursion(s, this, s.el[element].children[i]),
             this, element, i + 1)

nameRemoveRecursion(s, this, element) ==
    IF s.el[element].name # ""
    THEN IF ~IsAt(s.el[element].name) THEN nameRemove(s, this, element) ELSE s
    ELSE nameRemoveRecursionChildren(s, this, element, 1)

\* detachRecursion that notifies the element alone, not its descendants
detachRecursionOfElementOnly(s, this) ==
    Fire(Fire(s, "onDetach", this), "onDetachCallback", this)

RECURSIVE detachRecursion(_, _)
RECURSIVE detachRecursionChildren(_, _, _)

detachRecursionChildren(s, this, i) ==
    IF i > Len(s.el[this].children) THEN s
    ELSE detachRecursionChildren(
             detachRecursion(s, s.el[this].children[i]), this, i + 1)

detachRecursion(s, this) ==
    Fire(Fire(detachRecursionChildren(s, this, 1), "onDetach", this),
         "onDetachCallback", this)

\* the body of removeElement once element and index are known
removeElementAt(s, this, index) ==
    IF index >= 0
    THEN Bind(s.el[this].children[index + 1], LAMBDA element :
         Bind(nameRemoveRecursion(s, this, element), LAMBDA s1 :
         Bind([s1 EXCEPT !.el[this].children = RemoveAt(@, index)], LAMBDA s2 :
              detachRecursion(setDirty(s2, this, FALSE), element))))
    ELSE s

removeElement(s, this, element) ==
    removeElementAt(s, this, IndexOf(s.el[this].children, element))

\* ------------------------------------------------------------------------
\* Resolution of a path
\* ------------------------------------------------------------------------
\* what a call returns: an element, null, or a thrown error
Found(n) == [kind |-> "element", v |-> n, msg |-> ""]
NullResult == [kind |-> "null", v |-> 0, msg |-> ""]
Thrown(msg) == [kind |-> "throw", v |-> 0, msg |-> msg]
Void == [kind |-> "void", v |-> 0, msg |-> ""]

ParentIsNull == "layout parent is null!"
CouldNotResolve == "could not resolve"

\* the loop of getElement over the segments of the path, from the i-th on
RECURSIVE getElementWalk(_, _, _, _, _)
getElementWalk(e, current, path, i, noThrow) ==
    IF i > Len(path) THEN Found(current)
    ELSE LET seg == path[i]
             map == e[current].childrenMap
             child == IF map # Null /\ Len(seg) = 1 /\ MapHas(Get(map), seg[1])
                      THEN Some(Get(map)[seg[1]])
                      ELSE Null
             index == NumberOf(seg)
         IN  IF child # Null
             THEN getElementWalk(e, Get(child), path, i + 1, noThrow)
             ELSE IF seg = <<"parent">> /\ e[current].parent # Null
             THEN getElementWalk(e, Get(e[current].parent), path, i + 1, noThrow)
             ELSE IF index = Null \/ Len(e[current].children) <= Get(index)
             THEN IF noThrow THEN NullResult ELSE Thrown(CouldNotResolve)
             ELSE getElementWalk(e, e[current].children[Get(index) + 1],
                                 path, i + 1, noThrow)

\* getElement looking the path up from the element itself, index or not
getElementFromItself(e, this, name, noThrow) ==
    IF name = <<>> THEN Found(this)
    ELSE getElementWalk(e, this, Split(name), 1, noThrow)

RECURSIVE getElement(_, _, _, _)
getElement(e, this, name, noThrow) ==
    IF name = <<>> THEN Found(this)
    ELSE IF e[this].childrenMap = Null
    THEN IF e[this].parent = Null
         THEN Thrown(ParentIsNull)
         ELSE getElement(e, Get(e[this].parent), name, noThrow)
    ELSE getElementWalk(e, this, Split(name), 1, noThrow)

\* Array.reverse() and Array.join("."): the names, last first, with a
\* separator between two of them
RECURSIVE ReversedJoin(_, _)
ReversedJoin(result, k) ==
    IF k = 0 THEN <<>>
    ELSE IF k = 1 THEN <<result[1]>>
    ELSE <<result[k], Dot>> \o ReversedJoin(result, k - 1)

\* the loop of getPath up the parent chain; parent and root are nullable
RECURSIVE getPathWalk(_, _, _, _)
getPathWalk(e, parent, root, result) ==
    IF parent # Null /\ parent # root
    THEN LET p == Get(parent)
         IN  getPathWalk(e, e[p].parent, root,
                         IF e[p].name # "" /\ e[p].childrenMap # Null
                         THEN Append(result, e[p].name)
                         ELSE result)
    ELSE result

\* getPath that lists every named element above, index or not
getPathOfAllNamed(e, this, root) ==
    LET RECURSIVE Up(_, _)
        Up(parent, result) ==
            IF parent # Null /\ parent # root
            THEN Up(e[Get(parent)].parent,
                    IF e[Get(parent)].name # ""
                    THEN Append(result, e[Get(parent)].name)
                    ELSE result)
            ELSE result
    IN  IF Some(this) = root THEN Some(<<>>)
        ELSE IF e[this].name # ""
        THEN LET result == Up(e[this].parent, <<e[this].name>>)
             IN  Some(ReversedJoin(result, Len(result)))
        ELSE Null

\* getPath(root): the path as a nullable, undefined being Null; root is a
\* nullable, Null when the argument is left out
getPath(e, this, root) ==
    IF Some(this) = root THEN Some(<<>>)
    ELSE IF e[this].name # ""
    THEN LET result == getPathWalk(e, e[this].parent, root, <<e[this].name>>)
         IN  Some(ReversedJoin(result, Len(result)))
    ELSE Null

\* hasElement: getElement(name, true) != null; a throw passes through
hasElement(e, this, name) ==
    LET r == getElement(e, this, name, TRUE)
    IN  IF r.kind = "throw" THEN r
        ELSE [kind |-> "boolean", v |-> IF r.kind = "null" THEN 0 ELSE 1, msg |-> ""]

\* ------------------------------------------------------------------------
\* Tree mutation
\* ------------------------------------------------------------------------
\* the optional argument "before" of insertElement
Undefined == [kind |-> "undefined"]
BeforeNumber(i) == [kind |-> "number", v |-> i]
BeforeString(path) == [kind |-> "string", v |-> path]
BeforeElement(n) == [kind |-> "element", v |-> n]

\* indexOf(x) where x is what a getElement call returned
IndexOfResult(seq, r) == IF r.kind = "element" THEN IndexOf(seq, r.v) ELSE -1

\* the index at which insertElement puts the element; found is what
\* getElement(before) returned when before is a string
InsertIndex(children, before, found) ==
    LET len == Len(children)
        index == CASE before.kind = "undefined" -> len
                   [] before.kind = "number" -> Min(before.v, len)
                   [] before.kind = "string" -> IndexOfResult(children, found)
                   [] before.kind = "element" -> IndexOf(children, before.v)
    IN  IF before.kind # "undefined" /\ index < 0
        THEN Max(0, (len + 1) - index)
        ELSE index

\* insertElement that leaves the element in the children of its old parent
insertElementWithoutRemoval(s, this, element, before) ==
    Bind([s EXCEPT !.el[element].parent = Some(this)], LAMBDA s2 :
    Bind(IF before.kind = "string"
         THEN getElement(s2.el, this, before.v, FALSE)
         ELSE Void, LAMBDA found :
        IF found.kind = "throw" THEN Throw(s2, found.msg)
        ELSE Bind([s2 EXCEPT !.el[this].children =
                       InsertAt(@, InsertIndex(@, before, found), element)],
                  LAMBDA s3 :
                      setDirty(IF s3.el[element].name # "" /\ ~IsAt(s3.el[element].name)
                               THEN nameAdd(s3, this, element)
                               ELSE s3, this, FALSE))))

insertElement(s, this, element, before) ==
    Bind(IF s.el[element].parent # Null
         THEN removeElement(s, Get(s.el[element].parent), element)
         ELSE s, LAMBDA s1 :
    Bind([s1 EXCEPT !.el[element].parent = Some(this)], LAMBDA s2 :
    Bind(IF before.kind = "string"
         THEN getElement(s2.el, this, before.v, FALSE)
         ELSE Void, LAMBDA found :
        IF found.kind = "throw" THEN Throw(s2, found.msg)
        ELSE Bind([s2 EXCEPT !.el[this].children =
                       InsertAt(@, InsertIndex(@, before, found), element)],
                  LAMBDA s3 :
                      setDirty(IF s3.el[element].name # "" /\ ~IsAt(s3.el[element].name)
                               THEN nameAdd(s3, this, element)
                               ELSE s3, this, FALSE)))))

\* parentIndex: the place of the element among the children of its parent,
\* counted from 0; -1 without a parent
parentIndex(e, this) ==
    IF e[this].parent # Null
    THEN IndexOf(e[Get(e[this].parent)].children, this)
    ELSE -1

\* elements.forEach(x => this.insertElement(x)), from the i-th element on;
\* an exception ends the loop
RECURSIVE insertElementsAtEnd(_, _, _, _)
insertElementsAtEnd(s, this, elements, i) ==
    IF i > Len(elements) \/ ~Ok(s) THEN s
    ELSE Bind(insertElement(s, this, elements[i], Undefined), LAMBDA s1 :
             insertElementsAtEnd(s1, this, elements, i + 1))

\* the loop of insertElements over the elements after the first one; i
\* counts from 0 as in the code
RECURSIVE insertElementsFrom(_, _, _, _, _)
insertElementsFrom(s, this, elements, index, i) ==
    IF i >= Len(elements) \/ ~Ok(s) THEN s
    ELSE Bind(insertElement(s, this, elements[i + 1], BeforeNumber(index + i)),
              LAMBDA s1 : insertElementsFrom(s1, this, elements, index, i + 1))

insertElements(s, this, elements, before) ==
    IF Len(elements) = 0 THEN s
    ELSE IF before.kind = "undefined"
    THEN insertElementsAtEnd(s, this, elements, 1)
    ELSE Bind(insertElement(s, this, elements[1], before), LAMBDA s1 :
             IF ~Ok(s1) THEN s1
             ELSE insertElementsFrom(s1, this, elements,
                                     parentIndex(s1.el, elements[1]), 1))

delete(s, this) ==
    [(IF s.el[this].parent # Null
      THEN removeElement(s, Get(s.el[this].parent), this)
      ELSE s) EXCEPT !.el[this].parent = Null]

RECURSIVE deleteChildrenFrom(_, _, _, _)
deleteChildrenFrom(s, this, i, offset) ==
    IF i >= offset /\ Ok(s)
    THEN deleteChildrenFrom(removeElementAt(s, this, i), this, i - 1, offset)
    ELSE s

deleteChildren(s, this, offset) ==
    deleteChildrenFrom(s, this, Len(s.el[this].children) - 1, offset)

TargetNotFound == "replacement target not found"

\* replaceElement that appends the element when the target is not a child
replaceElementOrAppend(s, this, element, old) ==
    Bind(IF old.kind = "string"
         THEN getElement(s.el, this, old.v, FALSE)
         ELSE Found(old.v), LAMBDA found :
    Bind(IndexOfResult(s.el[this].children, found), LAMBDA index :
        IF found.kind = "throw" THEN Throw(s, found.msg)
        ELSE IF index < 0 THEN insertElement(s, this, element, Undefined)
        ELSE Bind(delete(s, s.el[this].children[index + 1]), LAMBDA s1 :
                 insertElement(s1, this, element,
                               IF index = Len(s1.el[this].children)
                               THEN Undefined
                               ELSE BeforeElement(s1.el[this].children[index + 1])))))

\* old is a BeforeString or a BeforeElement
replaceElement(s, this, element, old) ==
    Bind(IF old.kind = "string"
         THEN getElement(s.el, this, old.v, FALSE)
         ELSE Found(old.v), LAMBDA found :
    Bind(IndexOfResult(s.el[this].children, found), LAMBDA index :
        IF found.kind = "throw" THEN Throw(s, found.msg)
        ELSE IF index < 0 THEN Throw(s, TargetNotFound)
        ELSE Bind(delete(s, s.el[this].children[index + 1]), LAMBDA s1 :
                 insertElement(s1, this, element,
                               IF index = Len(s1.el[this].children)
                               THEN Undefined
                               ELSE BeforeElement(s1.el[this].children[index + 1])))))

\* ------------------------------------------------------------------------
\* Measurement
\* ------------------------------------------------------------------------
\* d is the call depth that is left: a getter entered with d = 0 is a stack
\* overflow (RangeError), the outcome of an unbounded recursion
StackOverflow == "RangeError: Maximum call stack size exceeded"
TypeError == "TypeError: Cannot read properties of null"

\* the getters width, height, top and left: the input when it is a number
width(s, this) ==
    IF s.el[this].width.kind = "number" THEN s.el[this].width.value ELSE 0

height(s, this) ==
    IF s.el[this].height.kind = "number" THEN s.el[this].height.value ELSE 0

\* get top / get left: the input when it is a number, 0 for a callback
top(s, this) ==
    IF s.el[this].top.kind = "number" THEN s.el[this].top.value ELSE 0

left(s, this) ==
    IF s.el[this].left.kind = "number" THEN s.el[this].left.value ELSE 0

\* get computedTop / get computedLeft, in half units; origin and anchor are 0
computedTop(s, this) ==
    IF s.el[this].cachedTop # Null THEN Res(s, Get(s.el[this].cachedTop))
    ELSE Res([s EXCEPT !.el[this].cachedTop = Some(Pos(s.el[this].top.value))],
             Pos(s.el[this].top.value))

computedLeft(s, this) ==
    IF s.el[this].cachedLeft # Null THEN Res(s, Get(s.el[this].cachedLeft))
    ELSE Res([s EXCEPT !.el[this].cachedLeft = Some(Pos(s.el[this].left.value))],
             Pos(s.el[this].left.value))

\* The getters and resolveLayout call one another.  Every call that may
\* re-enter a getter already running goes through Call, which applies the
\* getter named f.
RECURSIVE Call(_, _, _, _)
RECURSIVE childrenWidthFrom(_, _, _, _, _)
RECURSIVE childrenHeightFrom(_, _, _, _, _)
RECURSIVE childrenMaxWidthFrom(_, _, _, _, _)
RECURSIVE childrenMaxHeightFrom(_, _, _, _, _)
RECURSIVE resolveHorizontalMain(_, _, _, _, _, _, _, _, _)
RECURSIVE resolveVerticalMain(_, _, _, _, _, _, _, _, _)
RECURSIVE resolveHorizontalCross(_, _, _, _, _)
RECURSIVE resolveVerticalCross(_, _, _, _, _)

outerWidth(s, this, d) ==
    Bind(Call(s, "computedWidth", this, d), LAMBDA r :
        Res(r.s, r.v + s.el[this].margin.left + s.el[this].margin.right))

innerWidth(s, this, d) ==
    Bind(Call(s, "computedWidth", this, d), LAMBDA r :
        Res(r.s, r.v - s.el[this].padding.left - s.el[this].padding.right))

outerHeight(s, this, d) ==
    Bind(Call(s, "computedHeight", this, d), LAMBDA r :
        Res(r.s, r.v + s.el[this].margin.top + s.el[this].margin.bottom))

innerHeight(s, this, d) ==
    Bind(Call(s, "computedHeight", this, d), LAMBDA r :
        Res(r.s, r.v - s.el[this].padding.top - s.el[this].padding.bottom))

\* the eligibility test of the children* getters
Skipped(s, element) == s.el[element].ignoreLayout \/ ~s.el[element].enabled

childrenWidthFrom(s, this, i, value, d) ==
    IF i > Len(s.el[this].children) \/ ~Ok(s) THEN Res(s, value)
    ELSE IF Skipped(s, s.el[this].children[i])
    THEN childrenWidthFrom(s, this, i + 1, value, d)
    ELSE Bind(outerWidth(s, s.el[this].children[i], d), LAMBDA r :
             childrenWidthFrom(r.s, this, i + 1, value + r.v, d))

childrenWidth(s, this, d) == childrenWidthFrom(s, this, 1, 0, d)

childrenHeightFrom(s, this, i, value, d) ==
    IF i > Len(s.el[this].children) \/ ~Ok(s) THEN Res(s, value)
    ELSE IF Skipped(s, s.el[this].children[i])
    THEN childrenHeightFrom(s, this, i + 1, value, d)
    ELSE Bind(outerHeight(s, s.el[this].children[i], d), LAMBDA r :
             childrenHeightFrom(r.s, this, i + 1, value + r.v, d))

childrenHeight(s, this, d) == childrenHeightFrom(s, this, 1, 0, d)

childrenMaxWidthFrom(s, this, i, value, d) ==
    IF i > Len(s.el[this].children) \/ ~Ok(s) THEN Res(s, value)
    ELSE IF Skipped(s, s.el[this].children[i])
    THEN childrenMaxWidthFrom(s, this, i + 1, Max(value, 0), d)
    ELSE Bind(outerWidth(s, s.el[this].children[i], d), LAMBDA r :
             childrenMaxWidthFrom(r.s, this, i + 1, Max(value, r.v), d))

childrenMaxWidth(s, this, d) == childrenMaxWidthFrom(s, this, 1, 0, d)

childrenMaxHeightFrom(s, this, i, value, d) ==
    IF i > Len(s.el[this].children) \/ ~Ok(s) THEN Res(s, value)
    ELSE IF Skipped(s, s.el[this].children[i])
    THEN childrenMaxHeightFrom(s, this, i + 1, Max(value, 0), d)
    ELSE Bind(outerHeight(s, s.el[this].children[i], d), LAMBDA r :
             childrenMaxHeightFrom(r.s, this, i + 1, Max(value, r.v), d))

childrenMaxHeight(s, this, d) == childrenMaxHeightFrom(s, this, 1, 0, d)

\* this.children.reduce(...): the flexGrow of the enabled children
RECURSIVE growCountFrom(_, _, _)
growCountFrom(s, this, i) ==
    IF i > Len(s.el[this].children) THEN 0
    ELSE (IF s.el[s.el[this].children[i]].enabled
          THEN s.el[s.el[this].children[i]].flexGrow ELSE 0)
         + growCountFrom(s, this, i + 1)

\* Math.floor(growFactor * flexGrow), growFactor = growCount ? growPool / growCount : 0,
\* where pool and count are growPool and growCount before the loop.  The
\* floating-point product floors to this integer for every growCount below 7.
FloorGrow(pool, count, flexGrow) ==
    IF count = 0 THEN 0 ELSE (pool * flexGrow) \div count

\* const amount = growCount > 1 ? Math.floor(growFactor * flexGrow) : growPool,
\* and 0 for an element that does not grow
GrowAmount(s, element, growCount, growPool, pool, count) ==
    IF s.el[element].flexGrow = 0 THEN 0
    ELSE IF growCount > 1 THEN FloorGrow(pool, count, s.el[element].flexGrow)
    ELSE growPool

\* the first loop of the horizontal branch, from the i-th child on
resolveHorizontalMain(s, this, i, growCount, growPool, xOffset, pool, count, d) ==
    IF i > Len(s.el[this].children) \/ ~Ok(s) THEN s
    ELSE IF ~s.el[s.el[this].children[i]].enabled
            \/ s.el[s.el[this].children[i]].ignoreLayout
    THEN resolveHorizontalMain(s, this, i + 1, growCount, growPool, xOffset,
                               pool, count, d)
    ELSE Bind(s.el[this].children[i], LAMBDA element :
         Bind(GrowAmount(s, element, growCount, growPool, pool, count), LAMBDA amount :
         Bind(IF s.el[element].flexGrow # 0
              THEN [s EXCEPT !.el[element].cachedWidth = Some(width(s, element) + amount),
                             !.el[element].cachedHeight = Null]
              ELSE s, LAMBDA s1 :
         Bind(outerWidth([s1 EXCEPT !.el[element].cachedTop = Some(Pos(top(s, element))),
                                    !.el[element].cachedLeft =
                                        Some(xOffset + Pos(left(s, element))),
                                    !.el[element].dirty = TRUE],
                         element, d), LAMBDA outer :
             resolveHorizontalMain(outer.s, this, i + 1,
                                   IF s.el[element].flexGrow # 0
                                   THEN growCount - 1 ELSE growCount,
                                   growPool - amount,
                                   xOffset + Pos(outer.v), pool, count, d)))))

\* the second loop of the horizontal branch: vertical alignment
resolveHorizontalCross(s, this, i, innerH, d) ==
    IF i > Len(s.el[this].children) \/ ~Ok(s) THEN s
    ELSE IF s.el[this].enabled /\ ~s.el[s.el[this].children[i]].ignoreLayout
            /\ s.el[this].flexVerticalAlign # "top"
    THEN Bind(outerHeight(s, s.el[this].children[i], d), LAMBDA outer :
             resolveHorizontalCross(
                 IF Ok(outer.s)
                 THEN [outer.s EXCEPT !.el[s.el[this].children[i]].cachedTop =
                          Some(OrZero(@) + (IF s.el[this].flexVerticalAlign = "middle"
                                            THEN Half(innerH - outer.v)
                                            ELSE Pos(innerH - outer.v)))]
                 ELSE outer.s,
                 this, i + 1, innerH, d))
    ELSE resolveHorizontalCross(s, this, i + 1, innerH, d)

\* the first loop of the vertical branch, from the i-th child on
resolveVerticalMain(s, this, i, growCount, growPool, yOffset, pool, count, d) ==
    IF i > Len(s.el[this].children) \/ ~Ok(s) THEN s
    ELSE IF ~s.el[s.el[this].children[i]].enabled
            \/ s.el[s.el[this].children[i]].ignoreLayout
    THEN resolveVerticalMain(s, this, i + 1, growCount, growPool, yOffset,
                             pool, count, d)
    ELSE Bind(s.el[this].children[i], LAMBDA element :
         Bind(GrowAmount(s, element, growCount, growPool, pool, count), LAMBDA amount :
         Bind(IF s.el[element].flexGrow # 0
              THEN [s EXCEPT !.el[element].cachedHeight = Some(height(s, element) + amount),
                             !.el[element].cachedWidth = Null]
              ELSE s, LAMBDA s1 :
         Bind(outerHeight([s1 EXCEPT !.el[element].cachedLeft = Some(Pos(left(s, element))),
                                     !.el[element].cachedTop =
                                         Some(yOffset + Pos(top(s, element))),
                                     !.el[element].dirty = TRUE],
                          element, d), LAMBDA outer :
             resolveVerticalMain(outer.s, this, i + 1,
                                 IF s.el[element].flexGrow # 0
                                 THEN growCount - 1 ELSE growCount,
                                 growPool - amount,
                                 yOffset + Pos(outer.v), pool, count, d)))))

\* the second loop of the vertical branch: horizontal alignment
resolveVerticalCross(s, this, i, innerW, d) ==
    IF i > Len(s.el[this].children) \/ ~Ok(s) THEN s
    ELSE IF s.el[this].enabled /\ ~s.el[s.el[this].children[i]].ignoreLayout
            /\ s.el[this].flexHorizontalAlign # "left"
    THEN Bind(outerWidth(s, s.el[this].children[i], d), LAMBDA outer :
             resolveVerticalCross(
                 IF Ok(outer.s)
                 THEN [outer.s EXCEPT !.el[s.el[this].children[i]].cachedLeft =
                          Some(OrZero(@) + (IF s.el[this].flexHorizontalAlign = "center"
                                            THEN Half(innerW - outer.v)
                                            ELSE Pos(innerW - outer.v)))]
                 ELSE outer.s,
                 this, i + 1, innerW, d))
    ELSE resolveVerticalCross(s, this, i + 1, innerW, d)

\* this._layoutReady = true after the first loop; s.arranged keeps the
\* containers whose first loop has run, in order
Ready(s, this) ==
    IF Ok(s) THEN [s EXCEPT !.el[this].layoutReady = TRUE,
                            !.arranged = Append(@, this)]
    ELSE s

\* xOffset / yOffset before the first loop; start is "left" or "top",
\* middle is "center" or "middle"
StartOffset(growCount, growPool, align, start, middle) ==
    IF growCount = 0 /\ align # start
    THEN IF align = middle THEN Half(growPool) ELSE Pos(growPool)
    ELSE 0

resolveLayout(s, this, d) ==
    IF ~Ok(s) THEN s
    ELSE IF s.el[this].layoutReady \/ s.el[this].flexMode = "none"
    THEN [s EXCEPT !.el[this].layoutReady = TRUE]
    ELSE Bind(growCountFrom(s, this, 1), LAMBDA growCount :
         IF s.el[this].flexMode = "horizontal"
         THEN Bind(innerWidth(s, this, d), LAMBDA inner :
              Bind(childrenWidth(inner.s, this, d), LAMBDA sum :
              Bind(inner.v - sum.v, LAMBDA growPool :
              Bind(innerHeight(
                       Ready(resolveHorizontalMain(
                                 sum.s, this, 1, growCount, growPool,
                                 StartOffset(growCount, growPool,
                                             s.el[this].flexHorizontalAlign,
                                             "left", "center"),
                                 growPool, growCount, d), this),
                       this, d), LAMBDA cross :
                  resolveHorizontalCross(cross.s, this, 1, cross.v, d)))))
         ELSE Bind(innerHeight(s, this, d), LAMBDA inner :
              Bind(childrenHeight(inner.s, this, d), LAMBDA sum :
              Bind(inner.v - sum.v, LAMBDA growPool :
              Bind(innerWidth(
                       Ready(resolveVerticalMain(
                                 sum.s, this, 1, growCount, growPool,
                                 StartOffset(growCount, growPool,
                                             s.el[this].flexVerticalAlign,
                                             "top", "middle"),
                                 growPool, growCount, d), this),
                       this, d), LAMBDA cross :
                  resolveVerticalCross(cross.s, this, 1, cross.v, d))))))

\* the call of a size callback, this._width(this) or this._height(this),
\* entered with d calls left; the getter it reads is one call deeper
SizeCallback(s, this, input, d) ==
    IF d <= 1 THEN Res(Throw(s, StackOverflow), 0)
    ELSE IF s.el[this].parent = Null
    THEN Res(Throw(s, TypeError), 0)
    ELSE Bind(Call(s, IF input.kind = "shareOfParentWidth"
                      THEN "computedWidth"
                      ELSE "computedHeight", Get(s.el[this].parent), d - 2),
              LAMBDA ofParent : Res(ofParent.s, (ofParent.v * input.value) \div 100))

\* the value of computedWidth before fill is added
OwnWidth(s, this, d) ==
    IF IsCallback(s.el[this].width) THEN SizeCallback(s, this, s.el[this].width, d - 1)
    ELSE IF s.el[this].width.kind = "number" THEN Res(s, s.el[this].width.value)
    ELSE IF s.el[this].flexMode = "none"
    THEN IF s.el[this].flexGrow > 0 /\ parentLayout(s, this) = "horizontal"
         THEN Res(s, 0)
         ELSE Res(s, s.el[this].contentWidth)
    ELSE IF s.el[this].flexMode = "horizontal"
    THEN Bind(childrenWidth(s, this, d - 1), LAMBDA sum :
             Res(sum.s, sum.v + s.el[this].padding.left + s.el[this].padding.right))
    ELSE childrenMaxWidth(resolveLayout(s, this, d - 1), this, d - 1)

\* this._cachedWidth = value; return value
CacheWidth(r, this) ==
    IF Ok(r.s) THEN Res([r.s EXCEPT !.el[this].cachedWidth = Some(r.v)], r.v)
    ELSE Res(r.s, 0)

computedWidth(s, this, d) ==
    IF ~Ok(s) THEN Res(s, 0)
    ELSE IF d = 0 THEN Res(Throw(s, StackOverflow), 0)
    ELSE IF s.el[this].cachedWidth # Null THEN Res(s, Get(s.el[this].cachedWidth))
    ELSE Bind(OwnWidth(s, this, d), LAMBDA value :
             IF s.el[this].xFill = 0 \/ ~Ok(value.s) THEN CacheWidth(value, this)
             ELSE IF s.el[this].parent = Null
             THEN Res(Throw(value.s, TypeError), 0)
             ELSE Bind(Call(value.s, "computedWidth", Get(s.el[this].parent), d - 1),
                       LAMBDA ofParent :
                           CacheWidth(Res(ofParent.s,
                                          value.v + ofParent.v * s.el[this].xFill),
                                      this)))

\* the value of computedHeight before fill is added
OwnHeight(s, this, d) ==
    IF IsCallback(s.el[this].height) THEN SizeCallback(s, this, s.el[this].height, d - 1)
    ELSE IF s.el[this].height.kind = "number" THEN Res(s, s.el[this].height.value)
    ELSE IF s.el[this].flexMode = "none"
    THEN IF s.el[this].flexGrow > 0 /\ parentLayout(s, this) = "vertical"
         THEN Res(s, 0)
         ELSE Res(s, s.el[this].contentHeight)
    ELSE IF s.el[this].flexMode = "horizontal"
    THEN childrenMaxHeight(resolveLayout(s, this, d - 1), this, d - 1)
    ELSE Bind(childrenHeight(s, this, d - 1), LAMBDA sum :
             Res(sum.s, sum.v + s.el[this].padding.top + s.el[this].padding.bottom))

\* this._cachedHeight = value; return value
CacheHeight(r, this) ==
    IF Ok(r.s) THEN Res([r.s EXCEPT !.el[this].cachedHeight = Some(r.v)], r.v)
    ELSE Res(r.s, 0)

computedHeight(s, this, d) ==
    IF ~Ok(s) THEN Res(s, 0)
    ELSE IF d = 0 THEN Res(Throw(s, StackOverflow), 0)
    ELSE IF s.el[this].cachedHeight # Null THEN Res(s, Get(s.el[this].cachedHeight))
    ELSE Bind(OwnHeight(s, this, d), LAMBDA value :
             IF s.el[this].yFill = 0 \/ ~Ok(value.s) THEN CacheHeight(value, this)
             ELSE IF s.el[this].parent = Null
             THEN Res(Throw(value.s, TypeError), 0)
             ELSE Bind(Call(value.s, "computedHeight", Get(s.el[this].parent), d - 1),
                       LAMBDA ofParent :
                           CacheHeight(Res(ofParent.s,
                                           value.v + ofParent.v * s.el[this].yFill),
                                       this)))

Call(s, f, this, d) ==
    IF f = "computedWidth" THEN computedWidth(s, this, d)
    ELSE computedHeight(s, this, d)

\* ------------------------------------------------------------------------
\* Validation
\* ------------------------------------------------------------------------
RECURSIVE update(_, _)
RECURSIVE updateChildren(_, _, _)

\* this.children.forEach(element => element.update())
updateChildren(s, this, i) ==
    IF i > Len(s.el[this].children) \/ ~Ok(s) THEN s
    ELSE updateChildren(update(s, s.el[this].children[i]), this, i + 1)

\* Redraw without `this._dirty = false`: the element stays invalidated
RedrawKeepsDirty(s, this) ==
    IF ~Ok(s) THEN s
    ELSE Fire(Fire(Fire(s, "onBeforeRedrawCallback", this),
                   "onUpdate", this),
              "onAfterRedrawCallback", this)

\* the end of the dirty branch of update: the flag and the redraw notifications
Redraw(s, this) ==
    IF ~Ok(s) THEN s
    ELSE Fire(Fire(Fire([s EXCEPT !.el[this].dirty = FALSE],
                        "onBeforeRedrawCallback", this),
                   "onUpdate", this),
              "onAfterRedrawCallback", this)

\* update without the test of this._enabled
updateEvenIfDisabled(s, this) ==
    IF ~Ok(s) THEN s
    ELSE IF s.el[this].dirty
    THEN Redraw(
             updateChildren(
                 resolveLayout(
                     Fire(Fire(s, "onUpdateCallback", this),
                          "onBeforeLayoutResolveCallback", this),
                     this, MaxDepth),
                 this, 1),
             this)
    ELSE updateChildren(Fire(s, "onUpdateCallback", this), this, 1)

\* update that fires the redraw notifications before it visits the children
updateRedrawingFirst(s, this) ==
    IF ~Ok(s) \/ ~s.el[this].enabled THEN s
    ELSE IF s.el[this].dirty
    THEN updateChildren(
             Redraw(resolveLayout(
                        Fire(Fire(s, "onUpdateCallback", this),
                             "onBeforeLayoutResolveCallback", this),
                        this, MaxDepth),
                    this),
             this, 1)
    ELSE updateChildren(Fire(s, "onUpdateCallback", this), this, 1)

update(s, this) ==
    IF ~Ok(s) \/ ~s.el[this].enabled THEN s
    ELSE IF s.el[this].dirty
    THEN Redraw(
             updateChildren(
                 resolveLayout(
                     Fire(Fire(s, "onUpdateCallback", this),
                          "onBeforeLayoutResolveCallback", this),
                     this, MaxDepth),
                 this, 1),
             this)
    ELSE updateChildren(Fire(s, "onUpdateCallback", this), this, 1)

\* ------------------------------------------------------------------------
\* Setters
\* ------------------------------------------------------------------------
\* setWidth / set width, for a number or null
setWidth(s, this, value) ==
    IF value.kind = "string"
    THEN setDirty([s EXCEPT !.el[this].height = ShareOfParentWidth(value.value)],
                  this, s.el[this].cachedWidth # Null)
    ELSE IF s.el[this].width # value
    THEN setDirty([s EXCEPT !.el[this].width = value], this,
                  s.el[this].cachedWidth # Null)
    ELSE s

setHeight(s, this, value) ==
    IF value.kind = "string"
    THEN setDirty([s EXCEPT !.el[this].height = ShareOfParentHeight(value.value)],
                  this, s.el[this].cachedHeight # Null)
    ELSE IF s.el[this].height # value
    THEN setDirty([s EXCEPT !.el[this].height = value], this,
                  s.el[this].cachedHeight # Null)
    ELSE s

setMargin(s, this, value) ==
    setDirty([s EXCEPT !.el[this].margin = resolvePositioningBox(value)], this, FALSE)

setPadding(s, this, value) ==
    setDirty([s EXCEPT !.el[this].padding = resolvePositioningBox(value)], this, FALSE)

setFlexMode(s, this, value) ==
    IF s.el[this].flexMode # value
    THEN setDirty([s EXCEPT !.el[this].flexMode = value], this, FALSE)
    ELSE s

setFlexHorizontalAlign(s, this, value) ==
    IF s.el[this].flexHorizontalAlign # value
    THEN setDirty([s EXCEPT !.el[this].flexHorizontalAlign = value], this, FALSE)
    ELSE s

setFlexVerticalAlign(s, this, value) ==
    IF s.el[this].flexVerticalAlign # value
    THEN setDirty([s EXCEPT !.el[this].flexVerticalAlign = value], this, FALSE)
    ELSE s

\* setTop / setLeft with a number or a callback
setTop(s, this, value) ==
    setDirty([s EXCEPT !.el[this].top = value], this, s.el[this].cachedTop # Null)

setLeft(s, this, value) ==
    setDirty([s EXCEPT !.el[this].left = value], this, s.el[this].cachedLeft # Null)

\* onScaleChange(parentScale) and its loop over this.children
RECURSIVE onScaleChange(_, _, _)
RECURSIVE onScaleChangeChildren(_, _, _, _)

onScaleChangeChildren(s, this, i, scale) ==
    IF i > Len(s.el[this].children) THEN s
    ELSE onScaleChangeChildren(onScaleChange(s, s.el[this].children[i], scale),
                               this, i + 1, scale)

onScaleChange(s, this, parentScale) ==
    onScaleChangeChildren([s EXCEPT !.el[this].parentScale = parentScale],
                          this, 1, parentScale * s.el[this].scale)

\* set scale
setScale(s, this, value) ==
    IF s.el[this].scale # value
    THEN setDirty(onScaleChange([s EXCEPT !.el[this].scale = value], this,
                                s.el[this].parentScale),
                  this, FALSE)
    ELSE s

\* get globalScale
globalScale(s, this) == s.el[this].scale * s.el[this].parentScale

setFlexGrow(s, this, value) ==
    IF s.el[this].flexGrow # value
    THEN setDirty([s EXCEPT !.el[this].flexGrow = value], this, FALSE)
    ELSE s

setIgnoreLayout(s, this, value) ==
    IF s.el[this].ignoreLayout # value
    THEN setDirty([s EXCEPT !.el[this].ignoreLayout = value], this, FALSE)
    ELSE s

setVolatile(s, this, value) ==
    IF s.el[this].volatile # value
    THEN IF value
         THEN setDirty([s EXCEPT !.el[this].volatile = value], this, FALSE)
         ELSE [s EXCEPT !.el[this].volatile = value]
    ELSE s

setXFill(s, this, value) ==
    IF s.el[this].xFill # value
    THEN setDirty([s EXCEPT !.el[this].xFill = value], this, FALSE)
    ELSE s

setYFill(s, this, value) ==
    IF s.el[this].yFill # value
    THEN setDirty([s EXCEPT !.el[this].yFill = value], this, FALSE)
    ELSE s

RECURSIVE onEnableStateChange(_, _, _)
RECURSIVE onEnableStateChangeChildren(_, _, _, _)

onEnableStateChangeChildren(s, this, i, value) ==
    IF i > Len(s.el[this].children) THEN s
    ELSE onEnableStateChangeChildren(
             onEnableStateChange(s, s.el[this].children[i], value), this, i + 1, value)

onEnableStateChange(s, this, value) ==
    onEnableStateChangeChildren(
        Fire(s, IF value THEN "onEnableCallback" ELSE "onDisableCallback", this),
        this, 1, value)

setEnabled(s, this, value) ==
    IF s.el[this].enabled # value
    THEN IF value
         THEN Fire(setDirty(onEnableStateChange([s EXCEPT !.el[this].enabled = value],
                                                this, value),
                            this, FALSE),
                   "onEnable", this)
         ELSE Fire(onEnableStateChange([s EXCEPT !.el[this].enabled = value],
                                       this, value),
                   "onDisable", this)
    ELSE s

\* ------------------------------------------------------------------------
\* Construction
\* ------------------------------------------------------------------------
\* a LayoutElementConfig with every field the model uses; the values of
\* DefaultConfig are the ones the constructor assumes for an absent field
DefaultConfig ==
    [name |-> "", noChildrenMap |-> FALSE, enabled |-> TRUE,
     width |-> Unset, height |-> Unset, padding |-> 0, margin |-> 0,
     flexMode |-> "none", flexHorizontalAlign |-> "left",
     flexVerticalAlign |-> "top", flexGrow |-> 0,
     ignoreLayout |-> FALSE, volatile |-> FALSE, fill |-> 0, scale |-> 1]

\* new LayoutElement(factory, config), the element being element n
createElement(s, n, config) ==
    Bind([s EXCEPT !.el[n] = [Construct(config.name, config.noChildrenMap)
                                 EXCEPT !.enabled = config.enabled]], LAMBDA s0 :
    Bind(setWidth(s0, n, config.width), LAMBDA s1 :
    Bind(setHeight(s1, n, config.height), LAMBDA s2 :
    Bind(setPadding(s2, n, NumberBox(config.padding)), LAMBDA s3 :
    Bind(setMargin(s3, n, NumberBox(config.margin)), LAMBDA s4 :
    Bind(setFlexMode(s4, n, config.flexMode), LAMBDA s5 :
    Bind(setFlexHorizontalAlign(s5, n, config.flexHorizontalAlign), LAMBDA s6 :
    Bind(setFlexVerticalAlign(s6, n, config.flexVerticalAlign), LAMBDA s7 :
    Bind(setFlexGrow(s7, n, config.flexGrow), LAMBDA s8 :
    Bind(setIgnoreLayout(s8, n, config.ignoreLayout), LAMBDA s9 :
    Bind(setVolatile(s9, n, config.volatile), LAMBDA s10 :
        [s10 EXCEPT !.el[n].xFill = config.fill,
                    !.el[n].yFill = config.fill,
                    !.el[n].scale = config.scale])))))))))))

\* LayoutFactory.create(config, parent).  The tree of configs is given by
\* configs[n], the config of element n, and up[n], the element whose config
\* lists it among its children (0 for none); children are listed in the
\* order of their numbers.
RECURSIVE create(_, _, _, _)
RECURSIVE createChildren(_, _, _, _, _)

createChildren(s, configs, up, root, m) ==
    IF m > NumNodes \/ ~Ok(s) THEN s
    ELSE createChildren(IF up[m] = root THEN create(s, configs, up, m) ELSE s,
                        configs, up, root, m + 1)

create(s, configs, up, n) ==
    Bind(createElement(s, n, configs[n]), LAMBDA s1 :
    Bind(IF up[n] # 0 THEN insertElement(s1, up[n], n, Undefined) ELSE s1, LAMBDA s2 :
        Fire(createChildren(s2, configs, up, n, n + 1), "onAttachCallback", n)))

RECURSIVE createRoots(_, _, _, _)
createRoots(s, configs, up, n) ==
    IF n > NumNodes \/ ~Ok(s) THEN s
    ELSE createRoots(IF up[n] = 0 THEN create(s, configs, up, n) ELSE s,
                     configs, up, n + 1)

\* the elements after the factory has created every tree of the forest
Built(configs, up) ==
    createRoots(State([n \in Nodes |-> Construct("", FALSE)]), configs, up, 1).el

\* the forests over Nodes: every element hangs under an earlier one or is a root
Forests == {up \in [Nodes -> 0..NumNodes] : \A n \in Nodes : up[n] < n}
\* the trees rooted at element 1
Trees == {up \in Forests : \A n \in Nodes : n > 1 => up[n] # 0}

\* ------------------------------------------------------------------------
\* Specification of measurement, arrangement and invalidation
\* ------------------------------------------------------------------------
FlexModes == {"none", "horizontal", "vertical"}

\* configs of a root: every flex mode; with a size of its own, padding and
\* centre alignment, or sized by its children and aligned to the far edge
RootConfigs ==
    {[DefaultConfig EXCEPT !.flexMode = m, !.width = Num(21), !.height = Num(21),
                           !.padding = 1,
                           !.flexHorizontalAlign = "center",
                           !.flexVerticalAlign = "middle"] : m \in FlexModes}
    \cup
    {[DefaultConfig EXCEPT !.flexMode = m,
                           !.flexHorizontalAlign = "right",
                           !.flexVerticalAlign = "bottom"] : m \in FlexModes}

\* configs of the last element: a sized leaf, plain or growing
LeafConfigs ==
    {[DefaultConfig EXCEPT !.width = Num(2), !.height = Num(1)],
     [DefaultConfig EXCEPT !.width = Num(3), !.height = Num(2), !.flexGrow = 2,
                           !.margin = 1]}

\* configs of the elements between the root and the last element
ChildConfigs ==
    LeafConfigs \cup
    {[DefaultConfig EXCEPT !.flexGrow = 1],
     [DefaultConfig EXCEPT !.width = Num(0), !.height = Num(0), !.fill = 1],
     [DefaultConfig EXCEPT !.width = Num(2), !.height = Num(1), !.ignoreLayout = TRUE],
     [DefaultConfig EXCEPT !.flexMode = "horizontal", !.flexGrow = 1, !.padding = 1],
     [DefaultConfig EXCEPT !.flexMode = "vertical", !.margin = 1]}

LayoutConfigs ==
    {c \in [Nodes -> RootConfigs \cup ChildConfigs] :
        /\ c[1] \in RootConfigs
        /\ c[NumNodes] \in LeafConfigs
        /\ \A n \in Nodes : n > 1 => c[n] \in ChildConfigs}

\* the effect of one operation that ends in state s with the value r
Do(s, r, op, this) ==
    /\ el' = s.el
    /\ events' = s.events
    /\ err' = s.err
    /\ ret' = IF Ok(s) THEN r ELSE Thrown(s.err)
    /\ lastOp' = [op |-> op, this |-> this]
    /\ ops' = ops + 1

Number(v) == [kind |-> "number", v |-> v, msg |-> ""]

Init ==
    /\ \E up \in Trees : \E configs \in LayoutConfigs : el = Built(configs, up)
    /\ events = <<>>
    /\ err = "none"
    /\ ret = Void
    /\ lastOp = [op |-> "create", this |-> 1]
    /\ ops = 0

IsRoot(n) == el[n].parent = Null

Update ==
    /\ ops < MaxOps
    /\ \E n \in Nodes :
        /\ IsRoot(n)
        /\ Do(update(State(el), n), Void, "update", n)

ReadWidth ==
    /\ ops < MaxOps
    /\ \E n \in Nodes :
        \E r \in {Call(State(el), "computedWidth", n, MaxDepth)} :
            Do(r.s, Number(r.v), "computedWidth", n)

ReadHeight ==
    /\ ops < MaxOps
    /\ \E n \in Nodes :
        \E r \in {Call(State(el), "computedHeight", n, MaxDepth)} :
            Do(r.s, Number(r.v), "computedHeight", n)

SetWidth ==
    /\ ops < MaxOps
    /\ \E n \in Nodes : \E v \in {Num(4)} :
        Do(setWidth(State(el), n, v), Void, "setWidth", n)

SetMargin ==
    /\ ops < MaxOps
    /\ \E n \in Nodes : \E v \in {2} :
        Do(setMargin(State(el), n, NumberBox(v)), Void, "setMargin", n)

SetEnabled ==
    /\ ops < MaxOps
    /\ \E n \in Nodes : \E v \in {~el[n].enabled} :
        Do(setEnabled(State(el), n, v), Void, "enabled", n)

Next ==
    \/ Update
    \/ ReadWidth
    \/ ReadHeight
    \/ SetWidth
    \/ SetMargin
    \/ SetEnabled

Spec == Init /\ [][Next]_vars

\* the same elements without changes of the enable state: input setters,
\* geometry reads and validation only
NextInputs ==
    \/ Update
    \/ ReadWidth
    \/ ReadHeight
    \/ SetWidth
    \/ SetMargin

SpecInputs == Init /\ [][NextInputs]_vars

\* ------------------------------------------------------------------------
\* Specification of the tree and of the name index
\* ------------------------------------------------------------------------
\* configs that set only name and noChildrenMap
NameConfigs ==
    {[DefaultConfig EXCEPT !.name = nm, !.noChildrenMap = m] :
        nm \in Names \cup {""}, m \in BOOLEAN}

\* the names of the configs are pairwise distinct
DistinctNames(c) ==
    \A i \in Nodes : \A j \in Nodes :
        (i # j /\ c[i].name # "") => c[i].name # c[j].name

TreeConfigs == {c \in [Nodes -> NameConfigs] : DistinctNames(c)}

\* c is a child of p; n is below a (k bounds the length of the chain)
IsChild(e, p, c) == \E i \in 1..Len(e[p].children) : e[p].children[i] = c

RECURSIVE Below(_, _, _, _)
Below(e, a, n, k) ==
    k > 0 /\ \E c \in Nodes : IsChild(e, a, c) /\ (c = n \/ Below(e, c, n, k - 1))

IsBelow(e, a, n) == Below(e, a, n, NumNodes)

\* The callers never put an element under itself or under an element of its
\* own subtree or parent chain: the program does not check it and would
\* build a cycle, on which its walks up and down the tree do not end.
CanHold(e, this, element) ==
    /\ element # this
    /\ ~IsBelow(e, element, this)
    /\ ~isParentOf(e, element, this)

\* the paths the lookups are called with
Paths ==
    {<<>>, <<"a">>, <<"@a">>, <<"0">>, <<"parent">>, <<"b", Dot, "a">>,
     <<"b", Dot>>}

\* the effect of one operation with arguments args
DoWith(s, r, op, this, args) ==
    /\ el' = s.el
    /\ events' = s.events
    /\ err' = s.err
    /\ ret' = IF Ok(s) THEN r ELSE Thrown(s.err)
    /\ lastOp' = [op |-> op, this |-> this, args |-> args]
    /\ ops' = ops + 1

\* the effect of a lookup that returned or threw r
Looked(r, op, this, args) ==
    /\ el' = el
    /\ events' = <<>>
    /\ err' = IF r.kind = "throw" THEN r.msg ELSE "none"
    /\ ret' = r
    /\ lastOp' = [op |-> op, this |-> this, args |-> args]
    /\ ops' = ops + 1

\* the forests the factory builds from configs with distinct names: trees
\* attached under element 1 and subtrees built detached
TreeInit ==
    /\ \E up \in Forests : \E configs \in TreeConfigs : el = Built(configs, up)
    /\ events = <<>>
    /\ err = "none"
    /\ ret = Void
    /\ lastOp = [op |-> "create", this |-> 1, args |-> <<>>]
    /\ ops = 0

InsertElement ==
    /\ ops < MaxTreeOps
    /\ \E this \in Nodes : \E element \in Nodes :
       \E before \in {Undefined, BeforeNumber(0)} :
        /\ CanHold(el, this, element)
        /\ DoWith(insertElement(State(el), this, element, before), Found(element),
                  "insertElement", this, <<element, before>>)

ReplaceElement ==
    /\ ops < MaxTreeOps
    /\ \E this \in Nodes : \E element \in Nodes : \E old \in Nodes :
        /\ old # this
        /\ CanHold(el, this, element)
        /\ DoWith(replaceElement(State(el), this, element, BeforeElement(old)),
                  Found(element), "replaceElement", this, <<element, old>>)

Delete ==
    /\ ops < MaxTreeOps
    /\ \E this \in Nodes :
        DoWith(delete(State(el), this), Void, "delete", this, <<>>)

DeleteChildren ==
    /\ ops < MaxTreeOps
    /\ \E this \in Nodes : \E offset \in {0, 1} :
        DoWith(deleteChildren(State(el), this, offset), Void,
               "deleteChildren", this, <<offset>>)

GetElement ==
    /\ ops < MaxTreeOps
    /\ \E this \in Nodes : \E path \in Paths : \E noThrow \in BOOLEAN :
        Looked(getElement(el, this, path, noThrow), "getElement", this,
               <<path, noThrow>>)

HasElement ==
    /\ ops < MaxTreeOps
    /\ \E this \in Nodes : \E path \in Paths :
        Looked(hasElement(el, this, path), "hasElement", this, <<path>>)

TreeNext ==
    \/ InsertElement
    \/ ReplaceElement
    \/ Delete
    \/ DeleteChildren
    \/ GetElement
    \/ HasElement

TreeSpec == TreeInit /\ [][TreeNext]_vars

\* ------------------------------------------------------------------------
\* Specification of lookups in a tree built by the factory
\* ------------------------------------------------------------------------
\* One tree under element 1, built top-down by LayoutFactory.create from
\* configs with any names, equal names included; then lookups only.
BuildInit ==
    /\ \E up \in Trees : \E configs \in [Nodes -> NameConfigs] : el = Built(configs, up)
    /\ events = <<>>
    /\ err = "none"
    /\ ret = Void
    /\ lastOp = [op |-> "create", this |-> 1, args |-> <<>>]
    /\ ops = 0

BuildNext ==
    \/ GetElement
    \/ HasElement

BuildSpec == BuildInit /\ [][BuildNext]_vars

\* ------------------------------------------------------------------------
\* Properties of validation
\* ------------------------------------------------------------------------
\* the computed top, left, width and height of every element
Geometry(e) ==
    [n \in Nodes |-> <<e[n].cachedTop, e[n].cachedLeft,
                       e[n].cachedWidth, e[n].cachedHeight>>]

RedrawKinds == {"onBeforeRedrawCallback", "onUpdate", "onAfterRedrawCallback"}

\* some redraw notification is among the notifications ev
Redrawn(ev) == \E i \in 1..Len(ev) : ev[i][1] \in RedrawKinds

\* C1: idempotence of update().  In every state that an update() of a root
\* has just produced, calling update() on that root again, with nothing
\* changed in between, returns normally, leaves the computed top, left, width
\* and height of every element as they are, and fires no onBeforeRedraw,
\* onUpdate or onAfterRedraw notification on any element.
UpdateIsIdempotent ==
    (lastOp.op = "update" /\ err = "none") =>
        \A s2 \in {update(State(el), lastOp.this)} :
            /\ Ok(s2)
            /\ Geometry(s2.el) = Geometry(el)
            /\ ~Redrawn(s2.events)

\* C1 witness: a second update() in a row has run on an enabled root of a
\* flex tree: the root was already validated, so this call fired
\* onUpdateCallback on it and no redraw, and the geometry is in place
SecondUpdateDone ==
    /\ lastOp.op = "update"
    /\ err = "none"
    /\ ops >= 2
    /\ el[lastOp.this].enabled
    /\ el[lastOp.this].flexMode # "none"
    /\ Len(events) > 0
    /\ ~Redrawn(events)
    /\ \A n \in Nodes : el[n].cachedWidth # Null /\ ~el[n].dirty
    /\ \A n \in Nodes : ~IsRoot(n) => el[n].cachedLeft # Null

\* ------------------------------------------------------------------------
\* Properties of grow distribution
\* ------------------------------------------------------------------------
\* the children that take part in the flow of their container
Eligible(e, c) == e[c].enabled /\ ~e[c].ignoreLayout

RECURSIVE SumOf(_, _, _)
SumOf(f, seq, i) == IF i > Len(seq) THEN 0 ELSE f[seq[i]] + SumOf(f, seq, i + 1)

\* the total flexGrow of the eligible children of p
EligibleGrow(e, p) ==
    SumOf([c \in Nodes |-> IF Eligible(e, c) THEN e[c].flexGrow ELSE 0],
          e[p].children, 1)

\* the getters of the main axis of container p, read in the state e
MainOuter(e, p, c) ==
    IF e[p].flexMode = "horizontal" THEN outerWidth(State(e), c, MaxDepth)
    ELSE outerHeight(State(e), c, MaxDepth)

MainInner(e, p) ==
    IF e[p].flexMode = "horizontal" THEN innerWidth(State(e), p, MaxDepth)
    ELSE innerHeight(State(e), p, MaxDepth)

\* the sum of the outer main-axis sizes of the eligible children of p
ChildrenMain(e, p) ==
    SumOf([c \in Nodes |-> IF Eligible(e, c) /\ c \in {e[p].children[i] : i \in 1..Len(e[p].children)}
                           THEN MainOuter(e, p, c).v ELSE 0],
          e[p].children, 1)

\* every getter of the main axis of p returns in the state e
MainMeasured(e, p) ==
    /\ Ok(MainInner(e, p).s)
    /\ \A i \in 1..Len(e[p].children) :
           Eligible(e, e[p].children[i]) => Ok(MainOuter(e, p, e[p].children[i]).s)

\* nothing is cached: every element is invalidated and not yet measured
NothingCached(e) ==
    \A n \in Nodes :
        /\ e[n].dirty /\ ~e[n].layoutReady
        /\ e[n].cachedWidth = Null /\ e[n].cachedHeight = Null
        /\ e[n].cachedTop = Null /\ e[n].cachedLeft = Null

\* C2: exact grow distribution.  Whenever update() arranges a flex root p
\* of a tree in which nothing is cached, the eligible children of p have a
\* total flexGrow above 0 and the grow pool of p (its inner main-axis size
\* minus the sum of the eligible children's outer main-axis sizes before
\* growth) is at least 0, then after the update the sum of the eligible
\* children's outer main-axis sizes equals the inner main-axis size of p.
GrowFillsContainer ==
    [][\A p \in Nodes :
          (/\ lastOp'.op = "update" /\ lastOp'.this = p /\ err' = "none"
           /\ el[p].enabled /\ el[p].flexMode # "none"
           /\ NothingCached(el)
           /\ EligibleGrow(el, p) > 0
           /\ MainMeasured(el, p)
           /\ MainInner(el, p).v - ChildrenMain(el, p) >= 0)
          => ChildrenMain(el', p) = MainInner(el', p).v]_vars

\* ------------------------------------------------------------------------
\* Properties of invalidation
\* ------------------------------------------------------------------------
\* the elements with nothing cached: what measurement starts from when it
\* derives every size afresh from the current inputs
Fresh(e) ==
    [n \in Nodes |-> [e[n] EXCEPT !.cachedTop = Null, !.cachedLeft = Null,
                                  !.cachedWidth = Null, !.cachedHeight = Null,
                                  !.layoutReady = FALSE]]

\* the computed main-axis size of container p, read in the state e
MainSize(e, p) ==
    IF e[p].flexMode = "horizontal" THEN Call(State(e), "computedWidth", p, MaxDepth)
    ELSE Call(State(e), "computedHeight", p, MaxDepth)

MainPadding(e, p) ==
    IF e[p].flexMode = "horizontal" THEN e[p].padding.left + e[p].padding.right
    ELSE e[p].padding.top + e[p].padding.bottom

\* p is a flex container whose main-axis size is derived from its children
DerivesMainSize(e, p) ==
    /\ e[p].flexGrow = 0 /\ e[p].xFill = 0 /\ e[p].yFill = 0
    /\ \/ e[p].flexMode = "horizontal" /\ e[p].width.kind = "unset"
       \/ e[p].flexMode = "vertical" /\ e[p].height.kind = "unset"

\* p and the elements above it are enabled and validated
Validated(e, p) ==
    \A a \in Nodes : (a = p \/ isParentOf(e, a, p)) => e[a].enabled /\ ~e[a].dirty

\* C3: disabling shrinks the parent.  When a child c of a validated flex
\* container p whose main-axis size is derived from its children has just
\* been set to enabled = false, and update() then runs on the root above p,
\* the computed main-axis size of p after that update is its padding plus
\* the outer main-axis sizes of the children that are still eligible: the
\* size of c is no longer in it.
DisablingShrinksParent ==
    [][\A c \in Nodes : \A p \in el[c].parent :
          (/\ lastOp.op = "enabled" /\ lastOp.this = c /\ err = "none"
           /\ ~el[c].enabled /\ ~el[c].ignoreLayout
           /\ DerivesMainSize(el, p)
           /\ Validated(el, p)
           /\ lastOp'.op = "update" /\ err' = "none"
           /\ (lastOp'.this = p \/ isParentOf(el, lastOp'.this, p))
           /\ MainMeasured(Fresh(el'), p))
          => /\ Ok(MainSize(el', p).s)
             /\ MainSize(el', p).v = MainPadding(el', p) + ChildrenMain(Fresh(el'), p)]_vars

\* ------------------------------------------------------------------------
\* Properties of measurement
\* ------------------------------------------------------------------------
\* C4: zero-size bypass.  Whenever computedWidth has just been read and has
\* returned on an element whose width input is the number 0 and which does
\* not grow, the value read is 0, whatever the padding and the fill of the
\* element are; likewise for computedHeight and a height input of 0.
ZeroSizeIsZero ==
    \A n \in Nodes :
        (/\ err = "none" /\ lastOp.this = n /\ el[n].flexGrow = 0
         /\ \/ lastOp.op = "computedWidth" /\ el[n].width = Num(0)
            \/ lastOp.op = "computedHeight" /\ el[n].height = Num(0))
        => ret = Number(0)

\* the size of n depends only on its own inputs and on its children
OwnSized(e, n) ==
    /\ e[n].xFill = 0 /\ e[n].yFill = 0
    /\ e[n].flexGrow = 0 \/ parentLayout(State(e), n) = "none"

\* C5: cache coherence.  After any sequence of input setters, geometry
\* reads and update() calls, every element that is clean and whose size
\* depends only on its own inputs and its children has a cached width and a
\* cached height equal to what computedWidth and computedHeight derive for
\* it when nothing is cached.
CleanCacheIsFresh ==
    \A n \in Nodes :
        (~el[n].dirty /\ OwnSized(el, n)) =>
            /\ \A r \in {Call(State(Fresh(el)), "computedWidth", n, MaxDepth)} :
                   (Ok(r.s) /\ el[n].cachedWidth # Null) => Get(el[n].cachedWidth) = r.v
            /\ \A r \in {Call(State(Fresh(el)), "computedHeight", n, MaxDepth)} :
                   (Ok(r.s) /\ el[n].cachedHeight # Null) => Get(el[n].cachedHeight) = r.v

\* ------------------------------------------------------------------------
\* Properties of the name index
\* ------------------------------------------------------------------------
HasIndex(e, n) == e[n].childrenMap # Null
Index(e, n) == Get(e[n].childrenMap)

\* the elements that list n among their children
ParentsOf(e, n) == {p \in Nodes : IsChild(e, p, n)}
Attached(e, n) == ParentsOf(e, n) # {}

\* the nearest proper ancestor of n that holds an index, Null if there is none
RECURSIVE NearestIndexFrom(_, _, _)
NearestIndexFrom(e, n, k) ==
    IF k = 0 \/ ParentsOf(e, n) = {} THEN Null
    ELSE LET p == CHOOSE q \in ParentsOf(e, n) : TRUE
         IN  IF HasIndex(e, p) THEN Some(p) ELSE NearestIndexFrom(e, p, k - 1)

NearestIndex(e, n) == NearestIndexFrom(e, n, NumNodes)

\* the index of a maps the name of n to n; the index of a maps some name to n
Registered(e, a, n) ==
    HasIndex(e, a) /\ MapHas(Index(e, a), e[n].name) /\ Index(e, a)[e[n].name] = n

IsValueOf(e, a, n) ==
    HasIndex(e, a) /\ \E k \in DOMAIN Index(e, a) : Index(e, a)[k] = n

\* n has a name that does not start with '@'
PlainNamed(e, n) == e[n].name # "" /\ ~IsAt(e[n].name)

\* C6: name-index invariant.  After any sequence of insertElement,
\* replaceElement, delete and deleteChildren on elements with pairwise
\* distinct names, every attached element whose name does not start with
\* '@' and that has an index-holding proper ancestor is registered under its
\* name in the index of the nearest such ancestor, and is a value of no
\* other index.
NameIndexInvariant ==
    \A n \in Nodes :
        (Attached(el, n) /\ PlainNamed(el, n) /\ NearestIndex(el, n) # Null) =>
            /\ Registered(el, Get(NearestIndex(el, n)), n)
            /\ \A a \in Nodes \ NearestIndex(el, n) : ~IsValueOf(el, a, n)

\* C7: no stale index entries after deletion.  When delete() has returned
\* on an attached named element x, no index held by an element outside the
\* subtree of x maps a name to x or to an element below x, and getElement
\* of the name of such an element from an index-holding former ancestor of
\* x returns null with noThrow and throws without it.
DeleteLeavesNoEntry ==
    [][\A x \in Nodes : \A y \in Nodes : \A a \in Nodes :
          (/\ lastOp'.op = "delete" /\ lastOp'.this = x /\ err' = "none"
           /\ el[x].name # "" /\ Attached(el, x)
           /\ y = x \/ IsBelow(el, x, y)
           /\ a # x /\ ~IsBelow(el, x, a))
          => /\ ~IsValueOf(el', a, y)
             /\ (IsBelow(el, a, x) /\ HasIndex(el, a) /\ el[y].name # "") =>
                    /\ getElement(el', a, <<el[y].name>>, TRUE) = NullResult
                    /\ getElement(el', a, <<el[y].name>>, FALSE).kind = "throw"]_vars

\* C9: no-throw mode.  getElement(path, true) returns an element or null
\* and hasElement(path) returns a boolean, on every element and for every
\* path; getElement(path) throws when the path is not empty and does not
\* resolve, and returns the element itself when the path is empty.
LookupModes ==
    /\ (lastOp.op = "getElement" /\ lastOp.args[2]) => ret.kind \in {"element", "null"}
    /\ lastOp.op = "hasElement" => ret.kind = "boolean"
    /\ (lastOp.op = "getElement" /\ lastOp.args[1] = <<>>) => ret = Found(lastOp.this)
    /\ (/\ lastOp.op = "getElement" /\ ~lastOp.args[2] /\ lastOp.args[1] # <<>>
        /\ getElement(el, lastOp.this, lastOp.args[1], TRUE).kind # "element")
       => ret.kind = "throw"

\* C10: '@' names.  An element whose name starts with '@' is a value of no
\* index and getElement of its name from an element above it does not
\* return it; when it holds an index, the elements with a plain name whose
\* nearest index-holding ancestor it is are registered in its index and are
\* values of no index of an element above it.
AtNamesStayPrivate ==
    \A q \in Nodes : IsAt(el[q].name) =>
        /\ \A a \in Nodes : ~IsValueOf(el, a, q)
        /\ \A a \in Nodes :
               IsBelow(el, a, q) => getElement(el, a, <<el[q].name>>, TRUE) # Found(q)
        /\ \A y \in Nodes :
               (Attached(el, y) /\ PlainNamed(el, y) /\ NearestIndex(el, y) = Some(q)) =>
                   /\ Registered(el, q, y)
                   /\ \A a \in Nodes : IsBelow(el, a, q) => ~IsValueOf(el, a, y)

\* ------------------------------------------------------------------------
\* Properties of resolution
\* ------------------------------------------------------------------------
\* dotted paths of names
NamePaths == {<<n>> : n \in Names} \cup {<<n, Dot, m>> : n \in Names, m \in Names}

\* no other element with the same name shares the nearest index of n
UniqueInIndex(e, n) ==
    \A m \in Nodes :
        (m # n /\ e[m].name = e[n].name) => NearestIndex(e, m) # NearestIndex(e, n)

\* C8, as stated: in a tree built top-down, for every element n with a name
\* N whose nearest index-holding ancestor is A, A.getElement(N) is n, and
\* for every dotted name path P (the empty one when A is the root) by which
\* the root reaches A, root.getElement(P + "." + N) is n.
ResolutionIdentityAsStated ==
    \A n \in Nodes : \A A \in NearestIndex(el, n) :
        el[n].name # "" =>
            /\ getElement(el, A, <<el[n].name>>, TRUE) = Found(n)
            /\ \A P \in NamePaths \cup {<<>>} :
                   getElement(el, 1, P, TRUE) = Found(A) =>
                       getElement(el, 1, P \o <<Dot, el[n].name>>, TRUE) = Found(n)

\* C8: resolution identity.  In a tree built top-down, for every element n
\* whose name N does not start with '@' and is borne by no other element
\* with the same nearest index-holding ancestor A, A.getElement(N) returns
\* n, and for every non-empty dotted name path P by which the root reaches
\* A, root.getElement(P + "." + N) returns n.
ResolutionIdentity ==
    \A n \in Nodes : \A A \in NearestIndex(el, n) :
        (PlainNamed(el, n) /\ UniqueInIndex(el, n)) =>
            /\ getElement(el, A, <<el[n].name>>, FALSE) = Found(n)
            /\ \A P \in NamePaths :
                   getElement(el, 1, P, TRUE) = Found(A) =>
                       getElement(el, 1, P \o <<Dot, el[n].name>>, FALSE) = Found(n)

\* C8 witness: root.getElement("b.a") has returned element 3, whose name is
\* "a" and whose nearest index-holding ancestor is element 2, which the
\* root reaches by the path "b"
DottedLookupDone ==
    /\ lastOp.op = "getElement" /\ lastOp.this = 1
    /\ lastOp.args = <<(<<"b", Dot, "a">>), FALSE>>
    /\ ret = Found(3)
    /\ el[3].name = "a" /\ UniqueInIndex(el, 3)
    /\ NearestIndex(el, 3) = Some(2)
    /\ getElement(el, 1, <<"b">>, TRUE) = Found(2)

\* ------------------------------------------------------------------------
\* Resolution of the segments of a path
\* ------------------------------------------------------------------------
\* a segment that is a non-negative decimal integer: one digit or more
IsDecimal(seg) == Len(seg) > 0 /\ \A k \in 1..Len(seg) : seg[k] \in Digits

\* what one segment leads to from the element cur: the element registered
\* under that name in the index of cur, else the parent for the segment
\* "parent", else the k-th child for a decimal k below the number of
\* children; Null when the segment leads nowhere
SegmentTarget(e, cur, seg) ==
    IF HasIndex(e, cur) /\ Len(seg) = 1 /\ MapHas(Index(e, cur), seg[1])
    THEN Some(Index(e, cur)[seg[1]])
    ELSE IF seg = <<"parent">>
    THEN e[cur].parent
    ELSE IF IsDecimal(seg) /\ DecimalValue(seg, Len(seg)) < Len(e[cur].children)
    THEN Some(e[cur].children[DecimalValue(seg, Len(seg)) + 1])
    ELSE Null

RECURSIVE PathTarget(_, _, _, _)
PathTarget(e, cur, path, i) ==
    IF i > Len(path) THEN Some(cur)
    ELSE LET t == SegmentTarget(e, cur, path[i])
         IN  IF t = Null THEN Null ELSE PathTarget(e, Get(t), path, i + 1)

\* the lookup failed: null with noThrow, an error without
FailedLookup(r, noThrow) ==
    IF noThrow THEN r = NullResult ELSE r.kind = "throw"

\* C11: getElement on an element that holds an index splits the path on
\* "." and resolves every segment at the current element to the element
\* registered under that name, else to the parent for "parent", else to
\* children[k] for a decimal integer k below the number of children; any
\* other segment, an empty one included, makes the resolution fail.
SegmentsResolveAsStated ==
    (lastOp.op = "getElement" /\ lastOp.args[1] # <<>> /\ HasIndex(el, lastOp.this)) =>
        \A t \in {PathTarget(el, lastOp.this, Split(lastOp.args[1]), 1)} :
            IF t = Null
            THEN FailedLookup(ret, lastOp.args[2])
            ELSE ret = Found(Get(t))

BeforeNumbers == {BeforeNumber(i) : i \in {0 - 2, 0 - 1, 0, 1}}
BeforeElements == {BeforeElement(b) : b \in Nodes}
BeforeStrings == {BeforeString(<<nm>>) : nm \in {"a", "b"}}
\* insertElement and replaceElement with the position drawn from a set
InsertAmong(befores) ==
    \E this \in Nodes : \E element \in Nodes : \E before \in befores :
        /\ CanHold(el, this, element)
        /\ DoWith(insertElement(State(el), this, element, before), Found(element),
                  "insertElement", this, <<element, before>>)

ReplaceAmong(olds) ==
    \E this \in Nodes : \E element \in Nodes : \E old \in olds :
        /\ CanHold(el, this, element)
        /\ DoWith(replaceElement(State(el), this, element, old),
                  Found(element), "replaceElement", this, <<element, old>>)

InsertElementBefore ==
    /\ ops < MaxTreeOps
    /\ \/ InsertAmong({Undefined} \cup BeforeNumbers \cup BeforeElements)
       \/ InsertAmong(BeforeStrings)

ReplaceElementOld ==
    /\ ops < MaxTreeOps
    /\ \/ ReplaceAmong(BeforeElements)
       \/ ReplaceAmong(BeforeStrings)

EditNext ==
    \/ Update
    \/ InsertElementBefore
    \/ ReplaceElementOld
    \/ Delete
    \/ DeleteChildren

\* configs with distinct names that do not start with '@'
EditConfigs == {c \in TreeConfigs : \A n \in Nodes : ~IsAt(c[n].name)}

EditInit ==
    /\ \E up \in Forests : \E configs \in EditConfigs : el = Built(configs, up)
    /\ events = <<>>
    /\ err = "none"
    /\ ret = Void
    /\ lastOp = [op |-> "create", this |-> 1, args |-> <<>>]
    /\ ops = 0

EditSpec == EditInit /\ [][EditNext]_vars

\* ------------------------------------------------------------------------
\* Ownership of the children
\* ------------------------------------------------------------------------
\* how many times x occurs in seq
Occurrences(seq, x) == Cardinality({i \in 1..Len(seq) : seq[i] = x})

\* C13: single owner on insert.  Whenever p.insertElement(n, before) has
\* returned normally, n occurs exactly once in p.children and in no other
\* element's children, n.parent is p, and p is dirty.
SingleOwnerOnInsert ==
    (lastOp.op = "insertElement" /\ err = "none") =>
        /\ Occurrences(el[lastOp.this].children, lastOp.args[1]) = 1
        /\ \A q \in Nodes \ {lastOp.this} :
               Occurrences(el[q].children, lastOp.args[1]) = 0
        /\ el[lastOp.args[1]].parent = Some(lastOp.this)
        /\ el[lastOp.this].dirty

\* C13 witness: after update() of the root, element 3 was taken from its
\* parent (it was detached, and is still clean) and inserted into element
\* 2, a child of the root
MovedIntoCleanParent ==
    /\ lastOp.op = "insertElement" /\ lastOp.this = 2 /\ lastOp.args[1] = 3
    /\ err = "none" /\ ops = 2
    /\ el[2].parent = Some(1) /\ el[1].children = <<2>> /\ el[2].children = <<3>>
    /\ ~el[3].dirty
    /\ \E i \in 1..Len(events) : events[i] = <<"onDetachCallback", 3>>

\* C14: removal detaches.  After any sequence of insertElement,
\* replaceElement, delete and deleteChildren that ended normally, n.parent
\* is p exactly when n is among p.children, for all elements n and p: a
\* removed element is absent from its former parent's children and has no
\* parent.
ParentMatchesChildren ==
    err = "none" =>
        \A n \in Nodes : \A p \in Nodes :
            (el[n].parent = Some(p)) <=> IsChild(el, p, n)

\* ------------------------------------------------------------------------
\* Position of an inserted element
\* ------------------------------------------------------------------------
\* seq with x placed so that pos elements of seq precede it
PlacedAt(seq, pos, x) ==
    SubSeq(seq, 1, pos) \o <<x>> \o SubSeq(seq, pos + 1, Len(seq))

\* the position a numeric "before" stands for in a list of n children:
\* min(i, n) for i >= 0; for i = -k the position that k - 1 children
\* follow, not below 0
StatedPosition(n, i) == IF i >= 0 THEN Min(i, n) ELSE Max(0, n + 1 + i)

\* C15: a negative insertion index counts from the end.  When
\* p.insertElement(x, i) with a number i inserts an element x that was not
\* a child of p, x is placed at min(i, n) for i >= 0 and, for i = -k, so
\* that exactly k - 1 of the n previous children follow it (at 0 when
\* k - 1 > n).
NegativeIndexCountsFromEnd ==
    [][(/\ lastOp'.op = "insertElement" /\ err' = "none"
        /\ lastOp'.args[2].kind = "number"
        /\ ~IsChild(el, lastOp'.this, lastOp'.args[1]))
       => el'[lastOp'.this].children =
              PlacedAt(el[lastOp'.this].children,
                       StatedPosition(Len(el[lastOp'.this].children), lastOp'.args[2].v),
                       lastOp'.args[1])]_vars

\* the element a position argument denotes for the element this: the
\* referenced element, or the one its name resolves to; Null if none
Denoted(e, this, before) ==
    IF before.kind = "element" THEN Some(before.v)
    ELSE IF before.kind = "string"
    THEN LET r == getElement(e, this, before.v, TRUE)
         IN  IF r.kind = "element" THEN Some(r.v) ELSE Null
    ELSE Null

\* C16: an insertion point that is not found is an error.  When
\* p.insertElement(x, before) is called with an element, or a name that
\* resolves to an element, that is another element than p and x and not a
\* child of p, the call fails with an error and x is not inserted into
\* p.children.
MissingInsertionPointFails ==
    [][(/\ lastOp'.op = "insertElement"
        /\ ~IsChild(el, lastOp'.this, lastOp'.args[1])
        /\ \E b \in Denoted(el, lastOp'.this, lastOp'.args[2]) :
               /\ b # lastOp'.args[1] /\ b # lastOp'.this
               /\ ~IsChild(el, lastOp'.this, b))
       => (err' # "none" /\ ~IsChild(el', lastOp'.this, lastOp'.args[1]))]_vars

\* ------------------------------------------------------------------------
\* Specification of the edits of one list of children
\* ------------------------------------------------------------------------
\* A root, element 1, and NumSiblings unnamed elements, each inserted into
\* the root or left detached; then replaceElement, insertElement and delete
\* among them.
NumSiblings == 3
Siblings == 2..(NumSiblings + 1)
Family == {1} \cup Siblings

\* the orders in which some of the siblings are inserted into the root
Orders ==
    {q \in UNION {[1..k -> Siblings] : k \in 0..NumSiblings} :
        \A i \in DOMAIN q : \A j \in DOMAIN q : q[i] = q[j] => i = j}

RECURSIVE insertInOrder(_, _, _)
insertInOrder(s, order, i) ==
    IF i > Len(order) THEN s
    ELSE insertInOrder(insertElement(s, 1, order[i], Undefined), order, i + 1)

FamilyBuilt(order) ==
    insertInOrder(State([n \in Family |-> Construct("", FALSE)]), order, 1).el

SiblingInit ==
    /\ \E order \in Orders : el = FamilyBuilt(order)
    /\ events = <<>>
    /\ err = "none"
    /\ ret = Void
    /\ lastOp = [op |-> "create", this |-> 1, args |-> <<>>]
    /\ ops = 0

ReplaceSibling ==
    /\ ops < MaxTreeOps
    /\ \E element \in Siblings : \E old \in Siblings :
        DoWith(replaceElement(State(el), 1, element, BeforeElement(old)),
               Found(element), "replaceElement", 1, <<element, BeforeElement(old)>>)

InsertSibling ==
    /\ ops < MaxTreeOps
    /\ \E element \in Siblings :
       \E before \in {Undefined} \cup {BeforeElement(b) : b \in Siblings} :
        DoWith(insertElement(State(el), 1, element, before),
               Found(element), "insertElement", 1, <<element, before>>)

DeleteSibling ==
    /\ ops < MaxTreeOps
    /\ \E this \in Siblings :
        DoWith(delete(State(el), this), Void, "delete", this, <<>>)

SiblingNext ==
    \/ ReplaceSibling
    \/ InsertSibling
    \/ DeleteSibling

SiblingSpec == SiblingInit /\ [][SiblingNext]_vars

\* ------------------------------------------------------------------------
\* Replacement of a child
\* ------------------------------------------------------------------------
\* seq without the occurrences of x; seq with x put in the place of old
RECURSIVE Without(_, _)
Without(seq, x) ==
    IF seq = <<>> THEN <<>>
    ELSE IF seq[1] = x THEN Without(Tail(seq), x)
    ELSE <<seq[1]>> \o Without(Tail(seq), x)

Substituted(seq, old, x) == [k \in 1..Len(seq) |-> IF seq[k] = old THEN x ELSE seq[k]]

\* C17: replace keeps the position.  When target is a child of p, after
\* p.replaceElement(newNode, target) with another element newNode the
\* children of p are the former ones with newNode in the place of target,
\* newNode taken out of any place it had among them and the order of the
\* others unchanged; target is detached.
ReplaceKeepsPosition ==
    [][(/\ lastOp'.op = "replaceElement"
        /\ lastOp'.args[1] # lastOp'.args[2].v
        /\ IsChild(el, lastOp'.this, lastOp'.args[2].v))
       => /\ err' = "none"
          /\ el'[lastOp'.this].children =
                 Substituted(Without(el[lastOp'.this].children, lastOp'.args[1]),
                             lastOp'.args[2].v, lastOp'.args[1])
          /\ el'[lastOp'.args[2].v].parent = Null]_vars

\* C18: replace of a non-child fails cleanly.  When p.replaceElement(x,
\* target) is called with an element, or a name that resolves to an
\* element, that is not a child of p, the call raises an error and changes
\* nothing: no list of children, no parent, no index, no dirty flag.
ReplaceOfNonChildFails ==
    [][(/\ lastOp'.op = "replaceElement"
        /\ \E b \in Denoted(el, lastOp'.this, lastOp'.args[2]) :
               ~IsChild(el, lastOp'.this, b))
       => (err' # "none" /\ el' = el)]_vars

\* C18 witness: after an update(), replaceElement with a name that resolves
\* to an element that is not a child has thrown "replacement target not
\* found", and the element it was called on is still clean
ReplaceByNameRefused ==
    /\ lastOp.op = "replaceElement" /\ lastOp.args[2].kind = "string"
    /\ err = TargetNotFound
    /\ ops = 2
    /\ ~el[lastOp.this].dirty
    /\ getElement(el, lastOp.this, lastOp.args[2].v, TRUE).kind = "element"

\* ------------------------------------------------------------------------
\* Specification of percentage sizes
\* ------------------------------------------------------------------------
\* The trees of Init; then setWidth("n%") and setHeight("n%") on any
\* element, geometry reads and update().
Percents == {100, 200}

SetWidthPercent ==
    /\ ops < MaxOps
    /\ \E n \in Nodes : \E p \in Percents :
        DoWith(setWidth(State(el), n, Percent(p)), Void, "setWidth", n, <<Percent(p)>>)

SetHeightPercent ==
    /\ ops < MaxOps
    /\ \E n \in Nodes : \E p \in Percents :
        DoWith(setHeight(State(el), n, Percent(p)), Void, "setHeight", n, <<Percent(p)>>)

PercentNext ==
    \/ Update
    \/ ReadWidth
    \/ ReadHeight
    \/ SetWidthPercent
    \/ SetHeightPercent

PercentSpec == Init /\ [][PercentNext]_vars

\* n has a parent whose width (height) input is a number
ParentHasWidth(e, n) ==
    e[n].parent # Null /\ e[Get(e[n].parent)].width.kind = "number"
ParentHasHeight(e, n) ==
    e[n].parent # Null /\ e[Get(e[n].parent)].height.kind = "number"

\* the inner width (height) of the parent of n when its size is a number
ParentInnerWidth(e, n) ==
    LET p == e[Get(e[n].parent)]
    IN  p.width.value - p.padding.left - p.padding.right
ParentInnerHeight(e, n) ==
    LET p == e[Get(e[n].parent)]
    IN  p.height.value - p.padding.top - p.padding.bottom

\* C19: percentage sizes.  After child.setWidth("N%") on a child without
\* fill and grow whose parent has a numeric width, the computed width of
\* the child is N/100 of the inner width of the parent and its height input
\* is as before; after setHeight("N%") its computed height is N/100 of the
\* inner height of the parent and its width input is as before.
PercentIsOfParentInnerSize ==
    [][/\ (/\ lastOp'.op = "setWidth"
           /\ ParentHasWidth(el, lastOp'.this)
           /\ el[lastOp'.this].xFill = 0 /\ el[lastOp'.this].flexGrow = 0)
          => /\ el'[lastOp'.this].height = el[lastOp'.this].height
             /\ \A r \in {Call(State(el'), "computedWidth", lastOp'.this, MaxDepth)} :
                    /\ Ok(r.s)
                    /\ r.v * 100 = lastOp'.args[1].value * ParentInnerWidth(el, lastOp'.this)
       /\ (/\ lastOp'.op = "setHeight"
           /\ ParentHasHeight(el, lastOp'.this)
           /\ el[lastOp'.this].yFill = 0 /\ el[lastOp'.this].flexGrow = 0)
          => /\ el'[lastOp'.this].width = el[lastOp'.this].width
             /\ \A r \in {Call(State(el'), "computedHeight", lastOp'.this, MaxDepth)} :
                    /\ Ok(r.s)
                    /\ r.v * 100 = lastOp'.args[1].value * ParentInnerHeight(el, lastOp'.this)]_vars

\* ------------------------------------------------------------------------
\* Termination of measurement
\* ------------------------------------------------------------------------
\* C20: measurement terminates.  On every tree whose size inputs are
\* numbers, percentages or unset, with any fill, reading computedWidth or
\* computedHeight of any element and update() return: no call runs out of
\* stack through the getters of a parent and a child calling one another.
MeasurementTerminates == err # StackOverflow

\* ------------------------------------------------------------------------
\* Notifications of detachment and attachment
\* ------------------------------------------------------------------------
\* the elements notified with the callback kind, in the order of the calls
RECURSIVE NotifiedFrom(_, _, _)
NotifiedFrom(ev, kind, i) ==
    IF i > Len(ev) THEN <<>>
    ELSE (IF ev[i][1] = kind THEN <<ev[i][2]>> ELSE <<>>) \o NotifiedFrom(ev, kind, i + 1)

Notified(ev, kind) == NotifiedFrom(ev, kind, 1)

\* n and the elements below it
Subtree(e, n) == {n} \cup {m \in Nodes : IsBelow(e, n, m)}

\* the elements of list are exactly those of set, each once, and none
\* comes after an element it is below
OnceEachBottomUp(e, list, set) ==
    /\ Len(list) = Cardinality(set)
    /\ {list[i] : i \in 1..Len(list)} = set
    /\ \A i \in 1..Len(list) : \A j \in 1..Len(list) :
           i < j => ~IsBelow(e, list[i], list[j])

\* the children of p from the position offset on
ChildrenFrom(e, p, offset) ==
    {e[p].children[k] : k \in (offset + 1)..Len(e[p].children)}

\* C21: detach notifications.  When delete() removes an attached element,
\* or deleteChildren(offset) removes children, the detach notification
\* fires exactly once for every element of the removed subtrees,
\* descendants before their ancestor, and for no other element.
DetachNotifiesSubtreeOnce ==
    [][/\ (/\ lastOp'.op = "delete"
           /\ \E p \in Nodes : IsChild(el, p, lastOp'.this)
                               /\ el[lastOp'.this].parent = Some(p))
          => OnceEachBottomUp(el, Notified(events', "onDetachCallback"),
                              Subtree(el, lastOp'.this))
       /\ lastOp'.op = "deleteChildren"
          => OnceEachBottomUp(el, Notified(events', "onDetachCallback"),
                 UNION {Subtree(el, c) :
                            c \in ChildrenFrom(el, lastOp'.this, lastOp'.args[1])})]_vars

\* C21 witness: delete() of element 2, which had element 3 as its child,
\* has notified element 3 and then element 2
SubtreeDetached ==
    /\ lastOp.op = "delete" /\ lastOp.this = 2
    /\ el[2].children = <<3>>
    /\ el[2].parent = Null
    /\ Notified(events, "onDetachCallback") = <<3, 2>>

\* C22: attach on insertion.  Every time insertElement puts an existing
\* element under a parent (a first insertion or a re-parenting), the attach
\* notification of that element fires.
InsertionNotifiesAttach ==
    [][(/\ lastOp'.op = "insertElement"
        /\ err' = "none"
        /\ IsChild(el', lastOp'.this, lastOp'.args[1]))
       => \E i \in 1..Len(events') :
              events'[i] = <<"onAttachCallback", lastOp'.args[1]>>]_vars

\* ------------------------------------------------------------------------
\* Validation of disabled elements
\* ------------------------------------------------------------------------
\* C23: disabled elements are skipped.  update() on an element with
\* enabled = false changes no field of that element or of any other (dirty
\* flags, layoutReady, cached geometry) and fires no notification; this
\* holds for the update() the program calls on a root and for update() on
\* every disabled element of every state reached.
DisabledUpdateChangesNothing ==
    [][/\ (lastOp'.op = "update" /\ ~el[lastOp'.this].enabled)
          => (el' = el /\ events' = <<>> /\ err' = "none")
       /\ \A n \in Nodes :
              ~el'[n].enabled => update(State(el'), n) = State(el')]_vars

\* C23 witness: update() was called on a disabled root that is dirty and
\* has a dirty enabled child; nothing was notified
DisabledRootUpdated ==
    /\ lastOp.op = "update"
    /\ ~el[lastOp.this].enabled
    /\ el[lastOp.this].dirty
    /\ \E c \in Nodes : IsChild(el, lastOp.this, c) /\ el[c].enabled /\ el[c].dirty
    /\ events = <<>>

\* the width a callback gives to an element
NewWidth == 9

\* ------------------------------------------------------------------------
\* Callbacks that change the tree during update()
\* ------------------------------------------------------------------------
\* update() of elements whose onUpdate callback changes the tree.  The
\* elements of callbacks.deleters have a callback that calls
\* element.delete(); a pair <<n, t>> of callbacks.setters gives n a callback
\* that calls t.setWidth(NewWidth); the others have a callback that changes
\* nothing
RECURSIVE updateWithCallbacks(_, _, _)
RECURSIVE forEachUpdate(_, _, _, _, _)

NoCallbacks == [deleters |-> {}, setters |-> {}]

\* config.onUpdate of the element
onUpdateCallback(s, this, callbacks) ==
    IF this \in callbacks.deleters
    THEN delete(Fire(s, "onUpdateCallback", this), this)
    ELSE IF \E pair \in callbacks.setters : pair[1] = this
    THEN setWidth(Fire(s, "onUpdateCallback", this),
                  (CHOOSE pair \in callbacks.setters : pair[1] = this)[2],
                  Num(NewWidth))
    ELSE Fire(s, "onUpdateCallback", this)

\* this.children.forEach(element => element.update()): the indices below
\* the length the array had at the start, in order, each read when reached;
\* an index the array no longer has is passed over
forEachUpdate(s, this, k, len, callbacks) ==
    IF k > len \/ ~Ok(s) THEN s
    ELSE IF k > Len(s.el[this].children)
    THEN forEachUpdate(s, this, k + 1, len, callbacks)
    ELSE forEachUpdate(updateWithCallbacks(s, s.el[this].children[k], callbacks),
                       this, k + 1, len, callbacks)

updateWithCallbacks(s, this, callbacks) ==
    IF ~Ok(s) \/ ~s.el[this].enabled THEN s
    ELSE \* the flag is read after the callback has returned
         LET called == onUpdateCallback(s, this, callbacks)
         IN  IF ~Ok(called) THEN called
             ELSE IF called.el[this].dirty
             THEN LET resolved ==
                          resolveLayout(
                              Fire(called, "onBeforeLayoutResolveCallback", this),
                              this, MaxDepth)
                  IN  Redraw(forEachUpdate(resolved, this, 1,
                                           Len(resolved.el[this].children), callbacks),
                             this)
             ELSE forEachUpdate(called, this, 1,
                                Len(called.el[this].children), callbacks)

UpdateWithCallbacks ==
    /\ ops < MaxOps
    /\ \E n \in Nodes : \E deleters \in SUBSET Nodes :
        /\ IsRoot(n)
        /\ DoWith(updateWithCallbacks(State(el), n,
                                      [NoCallbacks EXCEPT !.deleters = deleters]),
                  Void, "update", n, <<deleters>>)

CallbackNext ==
    \/ UpdateWithCallbacks
    \/ SetWidth
    \/ SetEnabled

CallbackSpec == Init /\ [][CallbackNext]_vars

\* how many times update() entered the enabled element n during the step
Visits(ev, n) == Len(Notified(ev, "onUpdateCallback")) -
                 Len(SelectSeq(Notified(ev, "onUpdateCallback"), LAMBDA m : m # n))

\* C24: removal during traversal is safe.  When a callback fired during
\* update() of a child of P removes a child of P, every child of P that is
\* still attached and enabled after the pass has been visited by update()
\* exactly once in the pass (a pass that ends normally).
RemovalDuringUpdateSkipsNobody ==
    [][(lastOp'.op = "update" /\ err' = "none")
       => \A p \in Nodes :
              (el[p].enabled /\ Visits(events', p) = 1)
              => \A c \in Nodes :
                     (/\ IsChild(el, p, c) /\ IsChild(el', p, c)
                      /\ el'[c].parent = Some(p)
                      /\ el'[c].enabled)
                     => Visits(events', c) = 1]_vars

\* ------------------------------------------------------------------------
\* Specification of invalidation
\* ------------------------------------------------------------------------
\* configs of the trees that are invalidated: with and without a flex
\* mode, volatile or not, enabled or not below the root; every element has
\* a size of its own
DirtyConfigs ==
    {c \in [Nodes -> {[DefaultConfig EXCEPT !.width = Num(2), !.height = Num(1),
                                            !.flexMode = m, !.volatile = v,
                                            !.enabled = on] :
                          m \in {"none", "horizontal"}, v \in BOOLEAN,
                          on \in BOOLEAN}] :
        c[1].enabled}

Boolean(b) == [kind |-> "boolean", v |-> IF b THEN 1 ELSE 0, msg |-> ""]

DirtyInit ==
    /\ \E up \in Trees : \E configs \in DirtyConfigs : el = Built(configs, up)
    /\ events = <<>>
    /\ err = "none"
    /\ ret = Void
    /\ lastOp = [op |-> "create", this |-> 1, args |-> <<>>]
    /\ ops = 0

SetDirty ==
    /\ ops < MaxOps
    /\ \E n \in Nodes : \E force \in BOOLEAN :
        DoWith(setDirty(State(el), n, force),
               Boolean(setDirtyResult(State(el), n, force)),
               "setDirty", n, <<force>>)

DirtyNext ==
    \/ Update
    \/ ReadWidth
    \/ SetDirty

DirtySpec == DirtyInit /\ [][DirtyNext]_vars

\* C25: setDirty is a no-op on a dirty element.  setDirty() without force
\* on an element that is already dirty returns false and changes nothing:
\* no cached value, no layoutReady flag, no child and no parent.
SetDirtyOnDirtyIsNoOp ==
    [][(/\ lastOp'.op = "setDirty"
        /\ ~lastOp'.args[1]
        /\ el[lastOp'.this].dirty)
       => (ret' = Boolean(FALSE) /\ el' = el /\ events' = <<>>)]_vars

\* C25 witness: setDirty() was called on a dirty element that holds a
\* cached width and whose parent, in a flex mode, is clean; it returned
\* false and the parent is still clean
SetDirtyOnDirtyCalled ==
    /\ lastOp.op = "setDirty"
    /\ ~lastOp.args[1]
    /\ ret = Boolean(FALSE)
    /\ el[lastOp.this].dirty
    /\ el[lastOp.this].cachedWidth # Null
    /\ \E p \in Nodes : /\ el[lastOp.this].parent = Some(p)
                        /\ el[p].flexMode # "none"
                        /\ ~el[p].dirty

\* one step of the propagation the invalidation follows: the children of
\* the elements of D that have a flex mode or are volatile, and the parent
\* of an element of D when the parent has a flex mode
Propagated(e, D) ==
    D \cup {c \in Nodes : \E p \in D : /\ IsChild(e, p, c)
                                       /\ (e[p].flexMode # "none" \/ e[p].volatile)}
      \cup {p \in Nodes : \E c \in D : /\ e[c].parent = Some(p)
                                       /\ e[p].flexMode # "none"}

RECURSIVE PropagatedTimes(_, _, _)
PropagatedTimes(e, D, k) ==
    IF k = 0 THEN D ELSE PropagatedTimes(e, Propagated(e, D), k - 1)

\* the smallest set that holds n and is closed under the propagation
DirtyClosure(e, n) == PropagatedTimes(e, {n}, NumNodes)

\* the element with its four cached values cleared, dirty, layout not ready
Cleared(rec) ==
    [rec EXCEPT !.cachedTop = Null, !.cachedLeft = Null,
                !.cachedWidth = Null, !.cachedHeight = Null,
                !.dirty = TRUE, !.layoutReady = FALSE]

\* C26: dirty propagation closure.  setDirty() on a clean element n of a
\* fully clean tree makes dirty exactly the smallest set D that holds n,
\* the children of every element of D that has a flex mode or is volatile,
\* and the parent of an element of D when that parent has a flex mode;
\* every element of D has its four cached values cleared and layoutReady
\* false, and every element outside D is unchanged.
SetDirtyReachesClosure ==
    [][(/\ lastOp'.op = "setDirty"
        /\ ~lastOp'.args[1]
        /\ \A m \in Nodes : ~el[m].dirty)
       => /\ ret' = Boolean(TRUE)
          /\ \A m \in Nodes :
                 el'[m] = IF m \in DirtyClosure(el, lastOp'.this)
                          THEN Cleared(el[m]) ELSE el[m]]_vars

\* C26 witness: setDirty() on a clean child without flex mode, in a clean
\* tree whose root has a flex mode, has invalidated the child, the root and
\* the other child of the root, which held cached values
ClosureInvalidated ==
    /\ lastOp.op = "setDirty"
    /\ ~lastOp.args[1]
    /\ ret = Boolean(TRUE)
    /\ lastOp.this = 2
    /\ el[2].flexMode = "none" /\ ~el[2].volatile
    /\ el[1].children = <<2, 3>>
    /\ el[1].flexMode # "none"
    /\ \A m \in Nodes : el[m].dirty /\ el[m].cachedWidth = Null /\ ~el[m].layoutReady

\* ------------------------------------------------------------------------
\* Properties of the arrangement along the main axis
\* ------------------------------------------------------------------------
\* the positions in p.children of the eligible children that grow
Growers(e, p) ==
    {i \in 1..Len(e[p].children) :
        Eligible(e, e[p].children[i]) /\ e[e[p].children[i]].flexGrow > 0}

\* the grow pool of p: its inner main-axis size minus the outer main-axis
\* sizes of its eligible children, measured in the state e
GrowPool(e, p) == MainInner(e, p).v - ChildrenMain(e, p)

\* floor(growFactor * flexGrow) for the child at position i, growFactor
\* being the pool over the total weight of the eligible children
FlooredShare(e, p, i) ==
    (GrowPool(e, p) * e[e[p].children[i]].flexGrow) \div EligibleGrow(e, p)

\* the amount stated for the grower at position i: the floored share, and
\* for the last grower what the earlier growers have left of the pool
StatedAmount(e, p, i) ==
    IF \E j \in Growers(e, p) : j > i
    THEN FlooredShare(e, p, i)
    ELSE GrowPool(e, p)
         - SumOf([j \in 1..Len(e[p].children) |->
                      IF j \in Growers(e, p) /\ j < i
                      THEN FlooredShare(e, p, j) ELSE 0],
                 [j \in 1..Len(e[p].children) |-> j], 1)

\* the main-axis size of child c of p as declared (element.width or
\* element.height) and as computed in the state e
MainDeclared(e, p, c) ==
    IF e[p].flexMode = "horizontal" THEN width(State(e), c) ELSE height(State(e), c)

MainComputed(e, p, c) ==
    IF e[p].flexMode = "horizontal"
    THEN Call(State(e), "computedWidth", c, MaxDepth).v
    ELSE Call(State(e), "computedHeight", c, MaxDepth).v

\* C27: remainder to the last grower.  When update() arranges a flex root
\* p, every eligible child with flexGrow > 0 except the last one receives
\* floor(growFactor * flexGrow), growFactor being the grow pool over the
\* sum of the eligible weights, and the last one receives the grow pool
\* minus the amounts given before it; for every positive weight and for a
\* negative pool as well.
RemainderGoesToLastGrower ==
    [][\A p \in Nodes :
          (/\ lastOp'.op = "update" /\ lastOp'.this = p /\ err' = "none"
           /\ el[p].enabled /\ el[p].flexMode # "none"
           /\ NothingCached(el)
           /\ MainMeasured(el, p))
          => \A i \in Growers(el, p) :
                 MainComputed(el', p, el[p].children[i])
                     = MainDeclared(el, p, el[p].children[i]) + StatedAmount(el, p, i)]_vars

\* ------------------------------------------------------------------------
\* Specification of the flow of a flex container
\* ------------------------------------------------------------------------
\* a flex root with a size of its own, aligned to the start, the middle or
\* the far edge of both axes
FlowRootConfigs ==
    {[DefaultConfig EXCEPT !.flexMode = m, !.width = Num(20), !.height = Num(10),
                           !.flexHorizontalAlign = a[1],
                           !.flexVerticalAlign = a[2]] :
         m \in {"horizontal", "vertical"},
         a \in {<<"left", "top">>, <<"center", "middle">>, <<"right", "bottom">>}}

\* sized children: in the flow or outside it (ignoreLayout), growing or
\* not, and disabled ones
FlowChildConfigs ==
    {[DefaultConfig EXCEPT !.width = Num(4), !.height = Num(2),
                           !.flexGrow = g, !.ignoreLayout = ign] :
         g \in {0, 1}, ign \in BOOLEAN}
    \cup {[DefaultConfig EXCEPT !.width = Num(4), !.height = Num(2),
                                !.enabled = FALSE]}

FlowConfigs ==
    {c \in [Nodes -> FlowRootConfigs \cup FlowChildConfigs] :
        /\ c[1] \in FlowRootConfigs
        /\ \A n \in Nodes : n > 1 => c[n] \in FlowChildConfigs}

FlowInit ==
    /\ \E up \in Trees : \E configs \in FlowConfigs : el = Built(configs, up)
    /\ events = <<>>
    /\ err = "none"
    /\ ret = Void
    /\ lastOp = [op |-> "create", this |-> 1, args |-> <<>>]
    /\ ops = 0

Offsets == {Num(3), Returning(3)}

SetFlexGrow ==
    /\ ops < MaxOps
    /\ \E n \in Nodes : \E v \in {0, 1} :
        DoWith(setFlexGrow(State(el), n, v), Void, "flexGrow", n, <<v>>)

SetTop ==
    /\ ops < MaxOps
    /\ \E n \in Nodes : \E v \in Offsets :
        DoWith(setTop(State(el), n, v), Void, "setTop", n, <<v>>)

SetLeft ==
    /\ ops < MaxOps
    /\ \E n \in Nodes : \E v \in Offsets :
        DoWith(setLeft(State(el), n, v), Void, "setLeft", n, <<v>>)

FlowNext ==
    \/ Update
    \/ SetFlexGrow
    \/ SetTop
    \/ SetLeft

FlowSpec == FlowInit /\ [][FlowNext]_vars

\* p is an enabled flex container that update() has arranged
Arranged(e, p) ==
    /\ e[p].enabled /\ e[p].flexMode # "none"
    /\ ~e[p].dirty /\ e[p].layoutReady

\* C28: ignoreLayout children are outside the flow.  Changing the flexGrow
\* of a child with ignoreLayout = true does not change the size or the
\* position that the next update() assigns to the other children of the
\* container: the grow count, the grow pool, the alignment shift and the
\* remainder decision are computed from the eligible children only.
IgnoredChildLeavesFlowAlone ==
    [][\A p \in Nodes : \A x \in Nodes :
          (/\ lastOp'.op = "flexGrow" /\ lastOp'.this = x
           /\ IsChild(el, p, x) /\ el[x].ignoreLayout /\ el[x].enabled
           /\ IsRoot(p) /\ Arranged(el, p))
          => \A after \in {update(State(el'), p)} :
                 Ok(after)
                 => \A c \in Nodes :
                        (IsChild(el, p, c) /\ c # x /\ Eligible(el, c))
                        => Geometry(after.el)[c] = Geometry(el)[c]]_vars

\* the alignment of container p across its main axis is not the start
CrossAligned(e, p) ==
    \/ e[p].flexMode = "horizontal" /\ e[p].flexVerticalAlign # "top"
    \/ e[p].flexMode = "vertical" /\ e[p].flexHorizontalAlign # "left"

\* C29: the cross-axis pass touches only eligible children.  When update()
\* arranges a flex container whose cross-axis alignment is not the start,
\* the cached position and size of every child that is disabled or has
\* ignoreLayout set are left as they were.
CrossPassSparesIneligible ==
    [][\A p \in Nodes :
          (/\ lastOp'.op = "update" /\ lastOp'.this = p /\ err' = "none"
           /\ el[p].enabled /\ el[p].dirty /\ CrossAligned(el, p))
          => \A c \in Nodes :
                 (IsChild(el, p, c) /\ ~Eligible(el, c))
                 => Geometry(el')[c] = Geometry(el)[c]]_vars

\* the alignment of container p along its main axis is the start
StartAligned(e, p) ==
    \/ e[p].flexMode = "horizontal" /\ e[p].flexHorizontalAlign = "left"
    \/ e[p].flexMode = "vertical" /\ e[p].flexVerticalAlign = "top"

\* the declared main-axis offset of child c of p: the number given for
\* left or top, or the value its callback returns
MainOffset(e, p, c) ==
    IF e[p].flexMode = "horizontal" THEN e[c].left.value ELSE e[c].top.value

\* the computed main-axis position of child c of p, in half units
MainPosition(e, p, c) ==
    IF e[p].flexMode = "horizontal" THEN computedLeft(State(e), c).v
    ELSE computedTop(State(e), c).v

\* the outer main-axis sizes of the eligible children of p before position i
OuterBefore(e, p, i) ==
    SumOf([j \in 1..Len(e[p].children) |->
               IF j < i /\ Eligible(e, e[p].children[j])
               THEN MainOuter(e, p, e[p].children[j]).v ELSE 0],
          [j \in 1..Len(e[p].children) |-> j], 1)

\* C30: main-axis placement.  After update() has arranged a flex container
\* aligned to the start, the computed main-axis position of every eligible
\* child is the sum of the outer main-axis sizes, after growth, of the
\* eligible children before it plus the child's own declared main-axis
\* offset (its top or left input, a number or a callback).
PlacedAfterEarlierSiblings ==
    [][\A p \in Nodes :
          (/\ lastOp'.op = "update" /\ lastOp'.this = p /\ err' = "none"
           /\ el[p].enabled /\ el[p].dirty /\ el[p].flexMode # "none"
           /\ StartAligned(el, p))
          => \A i \in 1..Len(el[p].children) :
                 Eligible(el, el[p].children[i])
                 => MainPosition(el', p, el[p].children[i])
                        = Pos(OuterBefore(el', p, i)
                              + MainOffset(el, p, el[p].children[i]))]_vars

\* ------------------------------------------------------------------------
\* Specification of nested flex containers
\* ------------------------------------------------------------------------
\* a flex root with a size of its own; below it a flex container aligned to
\* the far edge of both axes, growing or not, with a size of its own or
\* sized by its children; and sized leaves, growing or not
NestRootConfigs ==
    {[DefaultConfig EXCEPT !.flexMode = m, !.width = Num(20), !.height = Num(10)] :
         m \in {"horizontal", "vertical"}}

NestContainerConfigs ==
    {[DefaultConfig EXCEPT !.flexMode = m, !.flexGrow = g,
                           !.width = size, !.height = size,
                           !.flexHorizontalAlign = "right",
                           !.flexVerticalAlign = "bottom"] :
         m \in {"horizontal", "vertical"}, g \in {0, 1}, size \in {Unset, Num(6)}}

NestLeafConfigs ==
    {[DefaultConfig EXCEPT !.width = Num(4), !.height = Num(2), !.flexGrow = g] :
         g \in {0, 1}}

NestConfigs ==
    {c \in [Nodes -> NestRootConfigs \cup NestContainerConfigs \cup NestLeafConfigs] :
        /\ c[1] \in NestRootConfigs
        /\ c[2] \in NestContainerConfigs
        /\ c[3] \in NestLeafConfigs}

NestInit ==
    /\ \E up \in Trees : \E configs \in NestConfigs : el = Built(configs, up)
    /\ events = <<>>
    /\ err = "none"
    /\ ret = Void
    /\ lastOp = [op |-> "create", this |-> 1]
    /\ ops = 0

NestSpec == NestInit /\ [][Next]_vars

\* container q is aligned to the far edge across its main axis
EndAligned(e, q) ==
    \/ e[q].flexMode = "horizontal" /\ e[q].flexVerticalAlign = "bottom"
    \/ e[q].flexMode = "vertical" /\ e[q].flexHorizontalAlign = "right"

\* the getters across the main axis of container q, read in the state e
\* (positions in half units)
CrossPosition(e, q, c) ==
    IF e[q].flexMode = "horizontal" THEN computedTop(State(e), c).v
    ELSE computedLeft(State(e), c).v

CrossOffset(e, q, c) ==
    IF e[q].flexMode = "horizontal" THEN e[c].top.value ELSE e[c].left.value

CrossOuter(e, q, c) ==
    IF e[q].flexMode = "horizontal" THEN outerHeight(State(e), c, MaxDepth).v
    ELSE outerWidth(State(e), c, MaxDepth).v

CrossInner(e, q) ==
    IF e[q].flexMode = "horizontal" THEN innerHeight(State(e), q, MaxDepth).v
    ELSE innerWidth(State(e), q, MaxDepth).v

\* C31: cross-axis alignment against the final size.  After update() on
\* the root, for every validated flex container aligned to the far edge
\* across its main axis and every eligible child of it with offset 0, the
\* child's computed cross-axis position plus its outer cross-axis size is
\* the container's inner cross-axis size, also when the container is a
\* growing child of another flex container.
EndAlignedAgainstFinalSize ==
    (lastOp.op = "update" /\ err = "none")
    => \A q \in Nodes : \A c \in Nodes :
           (/\ Validated(el, q) /\ el[q].flexMode # "none" /\ EndAligned(el, q)
            /\ IsChild(el, q, c) /\ Eligible(el, c)
            /\ CrossOffset(el, q, c) = 0)
           => CrossPosition(el, q, c) + Pos(CrossOuter(el, q, c))
                  = Pos(CrossInner(el, q))

\* ------------------------------------------------------------------------
\* Order of validation
\* ------------------------------------------------------------------------
\* the notification at position i of ev is a notification of element n or
\* of an element below n
Within(e, ev, i, n) == ev[i][2] = n \/ IsBelow(e, n, ev[i][2])

\* the redraw notifications of one update(): every onBeforeRedraw of an
\* element is followed at once by its onUpdate and its onAfterRedraw and
\* no other redraw notification occurs; when it fires the element is not
\* dirty, its arrangement is done, and every notification of the elements
\* below it and the visit of each enabled child are behind it
RedrawnInOrder(e, r) ==
    \A i \in 1..Len(r.events) :
        /\ r.events[i][1] \in {"onUpdate", "onAfterRedrawCallback"}
           => i > 1 /\ r.events[i - 1][2] = r.events[i][2]
                    /\ r.events[i - 1][1] = (IF r.events[i][1] = "onUpdate"
                                             THEN "onBeforeRedrawCallback"
                                             ELSE "onUpdate")
        /\ r.events[i][1] = "onBeforeRedrawCallback"
           => /\ i + 2 <= Len(r.events)
              /\ r.events[i + 1] = <<"onUpdate", r.events[i][2]>>
              /\ r.events[i + 2] = <<"onAfterRedrawCallback", r.events[i][2]>>
              /\ \A k \in i..(i + 2) :
                     ~r.seen[k].dirty /\ r.seen[k].layoutReady
              /\ \A j \in 1..Len(r.events) :
                     (j > i + 2 /\ Within(e, r.events, j, r.events[i][2])) => FALSE
              /\ \A c \in Nodes :
                     (IsChild(e, r.events[i][2], c) /\ e[c].enabled)
                     => \E j \in 1..(i - 1) : r.events[j] = <<"onUpdateCallback", c>>

\* C32: validation order.  When update() validates an enabled dirty
\* element, its redraw notifications (onBeforeRedraw, onUpdate,
\* onAfterRedraw, in that order) fire after its arrangement has run and
\* after update() of all its children has returned, and when they fire its
\* dirty flag is already false; a clean enabled element fires no redraw
\* notification but its children are still updated.
RedrawComesLast ==
    [][(lastOp'.op = "update" /\ err' = "none")
       => \A r \in {update(State(el), lastOp'.this)} :
              /\ r.events = events'
              /\ RedrawnInOrder(el, r)
              /\ \A n \in {lastOp'.this} :
                     el[n].enabled
                     => /\ (\E i \in 1..Len(events') :
                                events'[i] = <<"onBeforeRedrawCallback", n>>)
                            <=> el[n].dirty
                        /\ \A c \in Nodes :
                               (IsChild(el, n, c) /\ el[c].enabled)
                               => \E j \in 1..Len(events') :
                                      events'[j] = <<"onUpdateCallback", c>>]_vars

\* C32 witness: update() has validated a dirty root with an enabled child;
\* the child's redraw notifications precede the root's and the root is clean
ChildRedrawnBeforeRoot ==
    /\ lastOp.op = "update" /\ lastOp.this = 1 /\ err = "none"
    /\ ~el[1].dirty
    /\ \E i \in 1..Len(events) : \E j \in 1..Len(events) :
           /\ i < j
           /\ events[i] = <<"onAfterRedrawCallback", 2>>
           /\ events[j] = <<"onBeforeRedrawCallback", 1>>

\* ------------------------------------------------------------------------
\* Arrangement and the layoutReady flag
\* ------------------------------------------------------------------------
\* the containers whose arrangement the operation op on this runs from the
\* elements e, in order; the setters run none
ArrangedBy(e, op, this) ==
    IF op = "update" THEN update(State(e), this).arranged
    ELSE IF op \in {"computedWidth", "computedHeight"}
    THEN Call(State(e), op, this, MaxDepth).s.arranged
    ELSE <<>>

Setters == {"setWidth", "setMargin", "enabled"}

\* C33: arrangement runs once per validation.  Between two transitions of
\* a flex container to dirty by setDirty, its grow distribution and
\* main-axis placement run at most once, however often resolveLayout is
\* entered by reads of width and height or by update(): no operation
\* arranges a container twice or arranges one whose layoutReady is true,
\* layoutReady becomes true only by arrangement and false only in a
\* setter, and it is false after a setter has made the container dirty.
ArrangedOncePerValidation ==
    [][err' = "none"
       => \A p \in Nodes :
              el[p].flexMode # "none"
              => \A times \in {Occurrences(ArrangedBy(el, lastOp'.op, lastOp'.this), p)} :
                     /\ times <= 1
                     /\ times = 1 <=> (~el[p].layoutReady /\ el'[p].layoutReady)
                     /\ (el[p].layoutReady /\ ~el'[p].layoutReady)
                        => lastOp'.op \in Setters
                     /\ (lastOp'.op \in Setters /\ ~el[p].dirty /\ el'[p].dirty)
                        => ~el'[p].layoutReady]_vars

\* C33 witness: update() on the root has left a container below the root
\* arranged and validated although resolveLayout was entered for it twice,
\* by the measurement of the root and by its own update()
ArrangedDuringMeasurement ==
    /\ lastOp.op = "update" /\ lastOp.this = 1 /\ err = "none"
    /\ el[2].flexMode # "none" /\ el[2].width = Unset /\ el[2].flexGrow = 1
    /\ el[2].parent = Some(1)
    /\ el[2].layoutReady /\ ~el[2].dirty
    /\ el[1].layoutReady

\* ------------------------------------------------------------------------
\* Failure of an insertion
\* ------------------------------------------------------------------------
\* C34: a failed insert changes nothing.  If p.insertElement(n, before)
\* raises an error because the name given as before cannot be resolved,
\* the tree is as before the call: n is still a child of its previous
\* parent at the same position, n.parent is unchanged, and no index entry,
\* dirty flag or notification has changed.
FailedInsertChangesNothing ==
    [][(/\ lastOp'.op = "insertElement"
        /\ lastOp'.args[2].kind = "string"
        /\ err' # "none")
       => (el' = el /\ events' = <<>>)]_vars

\* ------------------------------------------------------------------------
\* Changes made inside notifications
\* ------------------------------------------------------------------------
\* update() of a root while the onUpdate callback of one child of the root
\* sets the width of another child
UpdateWithSetter ==
    /\ ops < MaxOps
    /\ \E p \in Nodes : \E n \in Nodes : \E t \in Nodes :
        /\ IsRoot(p)
        /\ n # t /\ IsChild(el, p, n) /\ IsChild(el, p, t)
        /\ DoWith(updateWithCallbacks(State(el), p,
                                      [NoCallbacks EXCEPT !.setters = {<<n, t>>}]),
                  Void, "update", p, <<n, t>>)

MutateNext ==
    \/ Update
    \/ UpdateWithSetter
    \/ SetFlexGrow

MutateSpec == FlowInit /\ [][MutateNext]_vars

\* the elements with nothing cached and everything to validate
Invalid(e) ==
    [n \in Nodes |-> [Fresh(e)[n] EXCEPT !.dirty = TRUE]]

\* the position and size of element c as the getters return them in e
Placed(e, c) ==
    <<computedLeft(State(e), c).v, computedTop(State(e), c).v,
      Call(State(e), "computedWidth", c, MaxDepth).v,
      Call(State(e), "computedHeight", c, MaxDepth).v>>

\* C35: mutations made inside notifications are not lost.  If, while
\* update() validates a dirty flex container p, the notification of one
\* child of p changes a size input of another child of p, then after the
\* following update() on the root every eligible child of p has the
\* position and size a fresh arrangement of p gives it.
CallbackChangeArrives ==
    [][\A p \in Nodes :
          (/\ lastOp.op = "update" /\ lastOp.this = p
           /\ "args" \in DOMAIN lastOp /\ Len(lastOp.args) = 2
           /\ lastOp'.op = "update" /\ lastOp'.this = p
           /\ "args" \notin DOMAIN lastOp'
           /\ err = "none" /\ err' = "none"
           /\ el[p].enabled /\ el[p].flexMode # "none"
           /\ el[lastOp.args[1]].enabled)
          => \A fresh \in {update(State(Invalid(el')), p)} :
                 \A c \in Nodes :
                     (IsChild(el', p, c) /\ Eligible(el', c))
                     => Placed(el', c) = Placed(fresh.el, c)]_vars

\* ------------------------------------------------------------------------
\* Enabling a child of a flex container
\* ------------------------------------------------------------------------
EnableNext ==
    \/ Update
    \/ SetEnabled
    \/ SetWidth

EnableSpec == FlowInit /\ [][EnableNext]_vars

\* C36: enabling re-arranges the parent.  For any history, also for a
\* child created with enabled = false and never validated or changed while
\* it was disabled, after child.enabled = true on a child of a flex
\* container the container is dirty.
EnablingDirtiesContainer ==
    [][\A c \in Nodes : \A p \in Nodes :
          (/\ lastOp'.op = "enabled" /\ lastOp'.this = c
           /\ ~el[c].enabled /\ el'[c].enabled
           /\ el[c].parent = Some(p) /\ IsChild(el, p, c)
           /\ el[p].flexMode # "none")
          => el'[p].dirty]_vars

\* ------------------------------------------------------------------------
\* Specification of scales
\* ------------------------------------------------------------------------
Scales == {1, 2, 3}

ScaleConfigs ==
    [Nodes -> {[DefaultConfig EXCEPT !.scale = v] : v \in {1, 2}}]

ScaleInit ==
    /\ \E up \in Forests : \E configs \in ScaleConfigs : el = Built(configs, up)
    /\ events = <<>>
    /\ err = "none"
    /\ ret = Void
    /\ lastOp = [op |-> "create", this |-> 1, args |-> <<>>]
    /\ ops = 0

SetScale ==
    /\ ops < MaxTreeOps
    /\ \E n \in Nodes : \E v \in Scales :
        DoWith(setScale(State(el), n, v), Void, "scale", n, <<v>>)

ScaleNext ==
    \/ SetScale
    \/ InsertElement
    \/ Delete

ScaleSpec == ScaleInit /\ [][ScaleNext]_vars

\* the product of the scales of the elements above n (k bounds the chain)
RECURSIVE ScaleAbove(_, _, _)
ScaleAbove(e, n, k) ==
    IF k = 0 \/ e[n].parent = Null THEN 1
    ELSE e[Get(e[n].parent)].scale * ScaleAbove(e, Get(e[n].parent), k - 1)

\* C37: scale composition.  After any sequence of constructions with a
\* scale, insertElement, delete and assignments of scale, the globalScale
\* of every element is the product of its own scale and the scales of all
\* its current ancestors.
GlobalScaleIsProduct ==
    \A n \in Nodes :
        globalScale(State(el), n) = el[n].scale * ScaleAbove(el, n, NumNodes)

\* ------------------------------------------------------------------------
\* Specification of paths in a tree built by the factory
\* ------------------------------------------------------------------------
\* One tree under element 1, built top-down; getPath of an element
\* relative to an element or to the top, and lookups.
GetPath ==
    /\ ops < MaxTreeOps
    /\ \E this \in Nodes : \E root \in {Null} \cup {Some(r) : r \in Nodes} :
        /\ el' = el
        /\ events' = <<>>
        /\ err' = "none"
        /\ ret' = Void
        /\ lastOp' = [op |-> "getPath", this |-> this,
                      args |-> <<root, getPath(el, this, root)>>]
        /\ ops' = ops + 1

PathNext ==
    \/ GetPath
    \/ GetElement

PathSpec == BuildInit /\ [][PathNext]_vars

\* the names of the named elements of e are pairwise distinct
NamedApart(e) ==
    \A i \in Nodes : \A j \in Nodes :
        (i # j /\ e[i].name # "") => e[i].name # e[j].name

\* n or an index-holding element between r and n has a name starting
\* with "@"
AtOnTheWay(e, r, n) ==
    \/ IsAt(e[n].name)
    \/ \E m \in Nodes :
        /\ IsBelow(e, r, m) /\ IsBelow(e, m, n)
        /\ HasIndex(e, m) /\ IsAt(e[m].name)

\* r.getElement(n.getPath(r)) returns n
RoundTrip(e, r, n) ==
    \A path \in {getPath(e, n, Some(r))} :
        path # Null /\ getElement(e, r, Get(path), FALSE) = Found(n)

RemoveNext ==
    \/ Delete
    \/ DeleteChildren
    \/ GetElement

RemoveSpec == BuildInit /\ [][RemoveNext]_vars

\* the entries of the index of a: pairs of a name and the element it maps to
Entries(e, a) ==
    IF HasIndex(e, a)
    THEN {<<k, Get(e[a].childrenMap)[k]>> : k \in DOMAIN Get(e[a].childrenMap)}
    ELSE {}

\* C39: removal only unregisters the removed node.  When x.delete() removes
\* x from the tree, every entry that leaves an index had x or a descendant
\* of x as its value, and a name that resolved from an index holder to an
\* element outside the subtree of x still resolves to it.
RemovalUnregistersOnlyRemoved ==
    [][\A x \in Nodes : \A a \in Nodes :
          (lastOp'.op = "delete" /\ lastOp'.this = x /\ err' = "none") =>
              /\ \A entry \in Entries(el, a) \ Entries(el', a) :
                     entry[2] = x \/ IsBelow(el, x, entry[2])
              /\ \A entry \in Entries(el, a) :
                     (entry[2] # x /\ ~IsBelow(el, x, entry[2]) /\ a # x
                      /\ ~IsBelow(el, x, a))
                         => getElement(el', a, <<entry[1]>>, TRUE)
                                = Found(entry[2])]_vars

\* ------------------------------------------------------------------------
\* Specification of bulk insertion among siblings
\* ------------------------------------------------------------------------
\* The family of the sibling specification; lists of distinct siblings,
\* attached or not, are inserted into the root in one call.
Lists == {q \in Orders : Len(q) <= 2}

InsertElements ==
    /\ ops < MaxTreeOps
    /\ \E elements \in Lists :
       \E before \in {Undefined} \cup {BeforeElement(b) : b \in Siblings} :
        DoWith(insertElements(State(el), 1, elements, before), Void,
               "insertElements", 1, <<elements, before>>)

BulkNext ==
    \/ InsertElements
    \/ DeleteSibling

BulkSpec == SiblingInit /\ [][BulkNext]_vars

\* elements stand in children one after another from the i-th place on,
\* and b follows them
StandBefore(children, elements, b, i) ==
    /\ i + Len(elements) <= Len(children)
    /\ \A k \in 1..Len(elements) : children[i + k - 1] = elements[k]
    /\ children[i + Len(elements)] = b

\* C40: bulk insert keeps order.  After p.insertElements([e1..ek], before)
\* with before a direct child of p that is not one of the ei, the nodes
\* e1..ek stand in p.children contiguously, in list order, immediately
\* before the node before, also when some of the ei were children of p.
BulkInsertKeepsOrder ==
    [][\A b \in Siblings :
          (/\ lastOp'.op = "insertElements"
           /\ lastOp'.args[2] = BeforeElement(b)
           /\ Len(lastOp'.args[1]) > 0
           /\ IsChild(el, 1, b)
           /\ \A k \in 1..Len(lastOp'.args[1]) : lastOp'.args[1][k] # b
           /\ err' = "none")
          => \E i \in 1..Len(el'[1].children) :
                 StandBefore(el'[1].children, lastOp'.args[1], b, i)]_vars

====
